---------------------------- MODULE Spec2Model ----------------------------
(***************************************************************************)
(* A model of the question-generation pipeline of the instructor           *)
(* assistant: the response normalizer (_parse_questions), the streamed     *)
(* generation endpoint (stream_generate_questions behind                   *)
(* /api/question-sets/generate/stream), the question-set store             *)
(* (server/question_sets.py), the insertion preview endpoint and the quota *)
(* deriver (_derive_type_counts).                                          *)
(*                                                                         *)
(* The module holds one specification per component:                       *)
(*   SpecParse   one response text, normalized once                        *)
(*   SpecStream  one streamed generation request                           *)
(*   SpecStore   concurrent callers of the question-set store              *)
(*   SpecQuota   one instruction text, quotas derived once                 *)
(*   SpecCompose one generation request, its prompt composed once          *)
(*   SpecRender  one question set, rendered to markdown repeatedly         *)
(*   SpecLayout  one list of plain questions, rendered to markdown         *)
(*   SpecMcp     the tool calls the MCP server answers                     *)
(*   SpecAgent   one run of the chat agent's tool-calling loop             *)
(* The variables of the components a specification does not exercise stay  *)
(* at their idle values.                                                    *)
(***************************************************************************)
EXTENDS Integers, Sequences, FiniteSets, TLC

VARIABLES
    \* ---- response normalizer
    content,        \* the text handed to _parse_questions
    result,         \* what the call returned or raised; NotRun before it
    \* ---- streamed generation
    hasCreds,       \* OPENAI_API_KEY or LITELLM_API_KEY is set
    openFails,      \* acompletion(...) raises when the stream is opened
    fragments,      \* delta.get("content") of each item the backend will send
    failAt,         \* the backend stream raises at its failAt-th read (0: never)
    backendContent, \* what the backend's full text holds
    pc,             \* position of event_stream / stream_generate_questions
    pos,            \* items of the backend stream read so far
    collected,      \* services.py: collected
    events,         \* wire events written to the response so far
    parseRuns,      \* calls of _parse_questions made by the request
    requestsSent,   \* completion / acompletion calls made to the backend
    response,       \* the HTTP answer of the batch endpoint; NoAnswer before
    \* ---- question-set store (SQLite tables question_sets and questions)
    question_sets,  \* id -> prompt, of the rows of question_sets
    questions,      \* set_id -> the rows of questions with that set_id, by id
    nextSetId,      \* the id AUTOINCREMENT gives the next question set
    pending,        \* update_question_set calls between check and transaction
    lastCall,       \* the last call of the store API and its outcome
    \* ---- insertion preview
    preview,        \* the last answer of preview_question_insertion
    \* ---- quota deriver
    instructions,   \* the instruction text handed to _derive_type_counts
    derived,        \* (counts, total) it returned; NotDerived before the call
    \* ---- prompt composer
    request,        \* the QuestionGenerationRequest handed to _build_messages
    user_prompt,    \* the guidance of the composed user prompt; NoPrompt before
    \* ---- canvas renderer
    canvas,         \* the prompt label, question list and points of a question set
    rendered,       \* what each render_canvas_markdown call on canvas returned
    otherRenders,   \* render_canvas_markdown calls made on other question sets
    \* ---- MCP server (server/app.py); its question tools write the tables
    \* question_sets and questions above
    _VALID_NONCES,  \* app.py:163, the nonces session_handshake has issued
    papers,         \* the rows of table papers and its AUTOINCREMENT counter
    notes,          \* the rows of table notes and its AUTOINCREMENT counter
    toolCall,       \* the last tool call the server answered
    toolCalls,      \* tool calls answered so far
    authorised,     \* the nonces that have let a mutating tool call through
    \* ---- chat agent (webapp/backend/agent.py, run_agent)
    convo,          \* agent.py:255-266, the conversation so far
    agentPc,        \* position of run_agent
    iters,          \* iterations of the loop started: calls of _chat_with_ollama
    nextCall,       \* position in tool_calls of the call the inner loop is at
    asked,          \* tool calls the model has asked for so far
    toolFailed      \* whether the last tool call executed ended in the except branch

parseVars  == <<content, result>>
streamVars == <<hasCreds, openFails, fragments, failAt, backendContent,
                pc, pos, collected, events, parseRuns, requestsSent, response>>
storeVars  == <<question_sets, questions, nextSetId, pending, lastCall>>
quotaVars  == <<instructions, derived>>
composeVars == <<request, user_prompt>>
renderVars == <<canvas, rendered, otherRenders>>
mcpVars == <<_VALID_NONCES, papers, notes, toolCall, toolCalls, authorised>>
agentVars == <<convo, agentPc, iters, nextCall, asked, toolFailed>>
vars == <<parseVars, streamVars, storeVars, preview, quotaVars, composeVars,
          renderVars, mcpVars, agentVars>>

\* what the actions of one component leave alone
notParse == <<streamVars, storeVars, preview, quotaVars, composeVars, renderVars,
    mcpVars, agentVars>>
notStream == <<parseVars, storeVars, preview, quotaVars, composeVars, renderVars,
    mcpVars, agentVars>>
notStore == <<parseVars, streamVars, quotaVars, composeVars, renderVars,
    mcpVars, agentVars>>
notQuota == <<parseVars, streamVars, storeVars, preview, composeVars, renderVars,
    mcpVars, agentVars>>
notCompose == <<parseVars, streamVars, storeVars, preview, quotaVars, renderVars,
    mcpVars, agentVars>>
notRender == <<parseVars, streamVars, storeVars, preview, quotaVars, composeVars,
    mcpVars, agentVars>>
notMcp == <<parseVars, streamVars, pending, lastCall, preview, quotaVars,
    composeVars, renderVars, agentVars>>
notAgent == <<parseVars, streamVars, storeVars, preview, quotaVars, composeVars,
    renderVars, mcpVars>>

----------------------------------------------------------------------------
(* Bounds *)

MaxEntries == 2
MaxFragments == 3
MaxSets == 2
MaxPending == 1
MaxPhrases == 3
MaxItems == 2
MaxRenders == 2
MaxQuestions == 3
MaxNonces == 2
MaxRows == 2
MaxCalls == 4
MaxToolCalls == 5

----------------------------------------------------------------------------
(* Text.  A Python str is a sequence of atoms; an atom is a run of         *)
(* whitespace or a word.  "" is the empty sequence.                        *)

Whitespace == {" ", "\n"}

\* str.lower() on one atom
LowerAtom(a) ==
    CASE a = "MCQ" -> "mcq"
      [] a = "Essay" -> "essay"
      [] a = "Quiz" -> "quiz"
      [] a = "Paris" -> "paris"
      [] a \in {"London", "LONDON"} -> "london"
      [] a = "Rome" -> "rome"
      [] a = "Oslo" -> "oslo"
      [] a = "Bern" -> "bern"
      [] a = "Town" -> "town"
      [] a \in {"True", "TRUE"} -> "true"
      [] a = "Yes" -> "yes"
      [] a = "No" -> "no"
      [] a = "TF" -> "tf"
      [] a = "A" -> "a"
      [] a = "B" -> "b"
      [] a = "C" -> "c"
      [] a = "D" -> "d"
      [] a = "T" -> "t"
      [] OTHER -> a

lower(s) == [i \in DOMAIN s |-> LowerAtom(s[i])]

\* str.upper() on one atom, for the atoms that are single letters
UpperAtom(a) ==
    CASE a = "a" -> "A"
      [] a = "b" -> "B"
      [] a = "c" -> "C"
      [] a = "d" -> "D"
      [] a = "t" -> "T"
      [] OTHER -> a

upper(s) == [i \in DOMAIN s |-> UpperAtom(s[i])]

RECURSIVE lstrip(_)
lstrip(s) ==
    IF s # <<>> /\ Head(s) \in Whitespace THEN lstrip(Tail(s)) ELSE s

RECURSIVE rstrip(_)
rstrip(s) ==
    IF s # <<>> /\ s[Len(s)] \in Whitespace
    THEN rstrip(SubSeq(s, 1, Len(s) - 1))
    ELSE s

\* str.strip()
strip(s) == rstrip(lstrip(s))

----------------------------------------------------------------------------
(* JSON values as json.loads returns them.  t is the Python type; s is the *)
(* text of a str, or str(v) of a number; items are the elements of a list. *)

Val(t, s, items) == [t |-> t, s |-> s, items |-> items]
Absent == Val("absent", <<>>, <<>>)     \* the key is not in the dict
Null == Val("null", <<>>, <<>>)         \* None
Str(s) == Val("str", s, <<>>)
Num(s) == Val("num", s, <<>>)           \* an int; s is its decimal text
List(items) == Val("list", <<>>, items)

\* dict.get(key): a missing key reads as None
Get(v) == IF v.t = "absent" THEN Null ELSE v

\* bool(v)
Truthy(v) ==
    CASE v.t = "str" -> v.s # <<>>
      [] v.t = "num" -> v.s # <<"0">>
      [] v.t = "list" -> v.items # <<>>
      [] OTHER -> FALSE

\* a or b
Or(a, b) == IF Truthy(a) THEN a ELSE b

\* str(o) of a list element
StrOf(o) == IF o.t = "null" THEN <<"None">> ELSE o.s

----------------------------------------------------------------------------
(* Results of a call: a returned value or a raised exception.              *)

NotRun == [tag |-> "notrun", exc |-> "", msg |-> <<>>, questions |-> <<>>]
Return(qs) == [tag |-> "ok", exc |-> "", msg |-> <<>>, questions |-> qs]
Raise(exc, msg) == [tag |-> "raise", exc |-> exc, msg |-> msg, questions |-> <<>>]

MsgNotJson == <<"LLM response was not valid JSON">>
MsgNoList == <<"LLM response did not include a 'questions' list.">>
MsgNoValid == <<"LLM response did not include any valid questions.">>

----------------------------------------------------------------------------
(* The response normalizer: services.py, _parse_questions.                 *)

\* An entry of the questions array that is a JSON object, by its keys.
Entry(text, question, kind, type, options, answer, solution) ==
    [t |-> "dict", text |-> text, question |-> question, kind |-> kind,
     type |-> type, options |-> options, answer |-> answer,
     solution |-> solution]

\* A response text: an optional code fence around a JSON document (or around
\* text that is no JSON).  fence is "" (none), "fence" (three backticks),
\* "fence json" or "fence python" (three backticks and a language tag).  top is the type of the decoded document; for an
\* object, questions and error are the values of its keys of these names;
\* for an array, questions is the array itself.
Content(fence, top, qs, error) ==
    [fence |-> fence, top |-> top, questions |-> qs, error |-> error]

\* schemas.py: Question (explanation and reference are read like answer)
Question(kind, text, options, answer) ==
    [kind |-> kind, text |-> text, options |-> options, answer |-> answer]

\* The pattern matches a whole text wrapped in one fence: a fence with no tag
\* or with the tag json is removed; any other tag stays in the captured text.
_strip_code_fences(raw) ==
    CASE raw.fence \in {"fence", "fence json"} -> [raw EXCEPT !.fence = ""]
      [] raw.fence = "fence python" -> [raw EXCEPT !.fence = "python"]
      [] OTHER -> raw

\* json.loads raises JSONDecodeError
JsonDecodeError(cleaned) == cleaned.fence # "" \/ cleaned.top = "invalid"

\* payload.get("questions") if isinstance(payload, dict) else payload
RawQuestions(payload) ==
    IF payload.top = "object" THEN Get(payload.questions) ELSE payload.questions

\* [str(o).strip() for o in options if str(o).strip()]
RECURSIVE CleanOptions(_)
CleanOptions(items) ==
    IF items = <<>> THEN <<>>
    ELSE LET o == strip(StrOf(Head(items)))
         IN  (IF o # <<>> THEN <<Str(o)>> ELSE <<>>) \o CleanOptions(Tail(items))

\* (entry.get(a) or entry.get(b) or "").strip() or None
\* AttributeError when the chosen value is not a str.
OptionalText(a, b) ==
    LET v == Or(Or(Get(a), Get(b)), Str(<<>>))
    IN  IF v.t # "str" THEN [exc |-> "AttributeError", v |-> Null]
        ELSE [exc |-> "",
              v |-> IF strip(v.s) # <<>> THEN Str(strip(v.s)) ELSE Null]

\* One pass of the loop body of _parse_questions (lines 198-216):
\* skip, append a Question, or raise.
ParseEntry(entry) ==
    IF entry.t # "dict" THEN [tag |-> "skip", exc |-> "", q |-> Null]
    ELSE
    LET text == Or(Get(entry.text), Get(entry.question))
        options == IF Get(entry.options).t = "list"
                   THEN List(CleanOptions(entry.options.items))
                   ELSE Null
        kind == Or(Or(Get(entry.kind), Get(entry.type)), Str(<<"short_answer">>))
        answer == OptionalText(entry.answer, entry.solution)
    IN  IF ~Truthy(text) THEN [tag |-> "skip", exc |-> "", q |-> Null]
        ELSE IF kind.t # "str" \/ text.t # "str"
             THEN [tag |-> "raise", exc |-> "AttributeError", q |-> Null]
        ELSE IF answer.exc # ""
             THEN [tag |-> "raise", exc |-> answer.exc, q |-> Null]
        \* Question(...): text has min_length=1
        ELSE IF strip(text.s) = <<>>
             THEN [tag |-> "raise", exc |-> "ValidationError", q |-> Null]
        ELSE [tag |-> "ok", exc |-> "",
              q |-> Question(lower(kind.s), strip(text.s), options, answer.v)]

\* The loop of lines 196-216 over raw_questions, normalized so far in acc.
RECURSIVE ParseLoop(_, _)
ParseLoop(raw, acc) ==
    IF raw = <<>> THEN
        IF acc = <<>> THEN Raise("QuestionGenerationError", MsgNoValid)
        ELSE Return(acc)
    ELSE LET r == ParseEntry(Head(raw))
         IN  CASE r.tag = "raise" -> Raise(r.exc, <<>>)
               [] r.tag = "skip" -> ParseLoop(Tail(raw), acc)
               [] OTHER -> ParseLoop(Tail(raw), Append(acc, r.q))

_parse_questions(raw) ==
    LET cleaned == _strip_code_fences(raw)
        raw_questions == RawQuestions(cleaned)
    IN  IF JsonDecodeError(cleaned)
        THEN Raise("QuestionGenerationError", MsgNotJson)
        ELSE IF raw_questions.t # "list"
        THEN Raise("QuestionGenerationError", MsgNoList)
        ELSE ParseLoop(raw_questions.items, <<>>)

----------------------------------------------------------------------------
(* Response texts the normalizer is run on.                                *)

Q == Str(<<"Q">>)

QEntry == Entry(Q, Absent, Absent, Absent, Absent, Absent, Absent)

TextVals ==
    {Absent, Null, Str(<<>>), Str(<<" ">>), Q, Str(<<" ", "Q", " ">>),
     Num(<<"5">>), Num(<<"0">>)}

EntriesByText ==
    {Entry(t, q, Absent, Absent, Absent, Absent, Absent) :
        t \in TextVals, q \in {Absent, Str(<<"R">>)}}

EntriesByKind ==
    {Entry(Q, Absent, k, ty, Absent, Absent, Absent) :
        k \in {Absent, Null, Str(<<"MCQ">>), Str(<<"Quiz">>), Num(<<"5">>)},
        ty \in {Absent, Str(<<"Essay">>)}}

EntriesByAnswer ==
    {Entry(Q, Absent, Absent, Absent, Absent, a, so) :
        a \in {Absent, Str(<<" ", "A">>), Str(<<" ">>), Num(<<"5">>)},
        so \in {Absent, Str(<<"S">>)}}

EntriesByOptions ==
    {Entry(Q, Absent, Str(<<"mcq">>), Absent, o, Absent, Absent) :
        o \in {Null, Str(<<"x">>), List(<<>>),
               List(<<Str(<<"a">>), Num(<<"5">>), Str(<<" ">>)>>)}}

\* entries of the array that are no JSON object
NonMappings == {Str(<<"x">>), Num(<<"5">>)}

Entries ==
    EntriesByText \cup EntriesByKind \cup EntriesByAnswer
        \cup EntriesByOptions \cup NonMappings

SeqsUpTo(S, n) == UNION {[1..k -> S] : k \in 0..n}

Reasons == {<<"cannot produce 50 essay questions from 200 words of context">>,
            <<"no context">>}

\* A decoded document whose array (top level, or under "questions") is es.
ArrayDocument(top, es) == Content("", top, List(es), Absent)

\* The decoded documents without an array of entries to enumerate.
OtherDocuments ==
    {Content("", "invalid", Null, Absent), Content("", "scalar", Num(<<"5">>), Absent)}
    \cup {Content("", "object", qs, e) :
            qs \in {Absent, Null, Str(<<"x">>)},
            e \in {Absent} \cup {Str(r) : r \in Reasons}}
    \cup {Content("", "object", List(<<QEntry>>), Str(r)) : r \in Reasons}

\* Documents of at most one entry inside a code fence.
FencedDocuments ==
    {[d EXCEPT !.fence = f] :
        d \in OtherDocuments
              \cup {ArrayDocument(top, es) :
                      top \in {"array", "object"}, es \in SeqsUpTo(Entries, 1)},
        f \in {"fence", "fence json", "fence python"}}

IdleParse == content = Content("", "invalid", Null, Absent) /\ result = NotRun

\* services.py:110 / :73, questions = _parse_questions(content)
Parse ==
    /\ result = NotRun
    /\ result' = _parse_questions(content)
    /\ UNCHANGED <<content, notParse>>

----------------------------------------------------------------------------
(* The canvas renderer: server/tools/canvas_export.py.  A rendered text is *)
(* a sequence of atoms; "\n" is the atom of a line break.                  *)

\* sep.join(parts)
RECURSIVE JoinWith(_, _)
JoinWith(sep, parts) ==
    IF parts = <<>> THEN <<>>
    ELSE IF Len(parts) = 1 THEN Head(parts)
    ELSE Head(parts) \o sep \o JoinWith(sep, Tail(parts))

\* s.split(): the words of s
RECURSIVE split(_)
split(s) ==
    IF s = <<>> THEN <<>>
    ELSE (IF Head(s) \in Whitespace THEN <<>> ELSE << <<Head(s)>> >>) \o split(Tail(s))

\* canvas_export.py:165-166, on the text of str(s)
_clean(s) == strip(JoinWith(<<" ">>, split(s)))

\* canvas_export.py:169-170
_canon(s) == lower(_clean(s))

\* a question dict as render_canvas_markdown receives it
CanvasItem(kind, text, options, answer, explanation, reference) ==
    [kind |-> kind, text |-> text, options |-> options, answer |-> answer,
     explanation |-> explanation, reference |-> reference]

\* the text _ensure_four_options pads with (canvas_export.py:137), one atom
Placeholder == <<"-">>

RECURSIVE CleanedOptions(_)
CleanedOptions(items) ==
    IF items = <<>> THEN <<>>
    ELSE (IF strip(StrOf(Head(items))) # <<>>
          THEN <<_clean(StrOf(Head(items)))>> ELSE <<>>)
         \o CleanedOptions(Tail(items))

\* _ensure_four_options cutting a longer list down to its last four
_ensure_four_options_LastFour(options) ==
    LET given == IF Truthy(options) /\ options.t = "list" THEN options.items ELSE <<>>
        opts == CleanedOptions(given)
        missing == IF Len(opts) < 4 THEN 4 - Len(opts) ELSE 0
        padded == opts \o [i \in 1..missing |-> Placeholder]
    IN  SubSeq(padded, Len(padded) - 3, Len(padded))

\* canvas_export.py:134-140
_ensure_four_options(options) ==
    LET given == IF Truthy(options) /\ options.t = "list" THEN options.items ELSE <<>>
        opts == CleanedOptions(given)
        missing == IF Len(opts) < 4 THEN 4 - Len(opts) ELSE 0
        padded == opts \o [i \in 1..missing |-> Placeholder]
    IN  SubSeq(padded, 1, 4)

\* _pick_answer_letter comparing the answer with the options as they are
_pick_answer_letter_Exact(options, answer) ==
    IF answer.t # "str" THEN <<"A">>
    ELSE IF upper(strip(answer.s)) \in {<<"A">>, <<"B">>, <<"C">>, <<"D">>}
    THEN upper(strip(answer.s))
    ELSE LET hits == {i \in DOMAIN options : options[i] = answer.s}
         IN  IF hits = {} THEN <<"A">>
             ELSE LET i == CHOOSE h \in hits : \A k \in hits : h <= k
                  IN  <<(<<"A", "B", "C", "D">>)[i]>>

\* canvas_export.py:143-153
_pick_answer_letter(options, answer) ==
    IF answer.t # "str" THEN <<"A">>
    ELSE IF upper(strip(answer.s)) \in {<<"A">>, <<"B">>, <<"C">>, <<"D">>}
    THEN upper(strip(answer.s))
    ELSE LET hits == {i \in DOMAIN options : _canon(options[i]) = _canon(answer.s)}
         IN  IF hits = {} THEN <<"A">>
             ELSE LET i == CHOOSE h \in hits : \A k \in hits : h <= k
                  IN  <<(<<"A", "B", "C", "D">>)[i]>>

\* canvas_export.py:156-162
_compose_explanation(expl, ref) ==
    LET e == IF Truthy(expl) /\ strip(StrOf(expl)) # <<>>
             THEN << _clean(StrOf(expl)) >> ELSE <<>>
        r == IF Truthy(ref) /\ strip(StrOf(ref)) # <<>>
             THEN << <<"(Ref: ">> \o strip(ref.s) \o <<")">> >> ELSE <<>>
    IN  strip(JoinWith(<<" ">>, e \o r))

ExplanationLines(it) ==
    LET explanation == _compose_explanation(Get(it.explanation), Get(it.reference))
    IN  IF explanation # <<>> THEN << <<"**Explanation:**", " ">> \o explanation >>
        ELSE <<>>

\* the line of the question's number and text
TitleLine(qnum, prefix, text) ==
    <<"**", ToString(qnum), ". ">> \o prefix \o text \o <<"**">>

\* it.get("text") or fallback, cleaned
TextOr(it, fallback) ==
    IF Truthy(Get(it.text)) THEN _clean(StrOf(it.text)) ELSE _clean(fallback)

\* canvas_export.py:81-97
_format_mcq(qnum, it) ==
    LET text == TextOr(it, <<"Untitled", " ", "question">>)
        options == _ensure_four_options(Get(it.options))
        answer_letter == _pick_answer_letter(options, Get(it.answer))
    IN  <<TitleLine(qnum, <<>>, text),
          <<"a)", " ">> \o options[1],
          <<"b)", " ">> \o options[2],
          <<"c)", " ">> \o options[3],
          <<"d)", " ">> \o options[4],
          <<"**Answer:**", " ">> \o answer_letter>>
        \o ExplanationLines(it)

\* canvas_export.py:100-108
_format_short_answer(qnum, it) ==
    LET text == TextOr(it, <<"Untitled", " ", "question">>)
        answer == IF Truthy(Get(it.answer)) THEN _clean(StrOf(it.answer)) ELSE <<>>
    IN  <<TitleLine(qnum, <<>>, text), <<"**Answer:**", " ">> \o answer>>
        \o ExplanationLines(it)

\* _format_true_false comparing the answer as it is written
_format_true_false_CaseSensitive(qnum, it) ==
    LET text == TextOr(it, <<"Untitled", " ", "statement">>)
        answer == IF Truthy(Get(it.answer)) THEN strip(StrOf(it.answer)) ELSE <<>>
        answer_norm ==
            IF answer \in {<<"true">>, <<"t">>, <<"1">>, <<"yes">>}
            THEN "True" ELSE "False"
    IN  <<TitleLine(qnum, <<"T/F:", " ">>, text), <<"**Answer:**", " ", answer_norm>> >>
        \o ExplanationLines(it)

\* canvas_export.py:111-122
_format_true_false(qnum, it) ==
    LET text == TextOr(it, <<"Untitled", " ", "statement">>)
        answer == IF Truthy(Get(it.answer)) THEN strip(StrOf(it.answer)) ELSE <<>>
        answer_norm ==
            IF lower(answer) \in {<<"true">>, <<"t">>, <<"1">>, <<"yes">>}
            THEN "True" ELSE "False"
    IN  <<TitleLine(qnum, <<"T/F:", " ">>, text), <<"**Answer:**", " ", answer_norm>> >>
        \o ExplanationLines(it)

\* canvas_export.py:125-131
_format_essay(qnum, it) ==
    LET text == TextOr(it, <<"Essay", " ", "prompt">>)
    IN  <<TitleLine(qnum, <<>>, text), <<"**Answer:**">> >> \o ExplanationLines(it)

\* the grouping with the questions of an unknown kind put with the short
\* answers
KindGroup_DefaultsShort(it) ==
    LET kind == IF Truthy(Get(it.kind)) THEN strip(lower(it.kind.s)) ELSE <<>>
    IN  CASE kind \in {<<"mcq">>, <<"multiple_choice">>, <<"multiple_choice_question">>} -> "mcq"
          [] kind \in {<<"true_false">>, <<"truefalse">>, <<"tf">>} -> "true_false"
          [] kind \in {<<"essay">>, <<"long_answer">>, <<"longanswer">>} -> "essay"
          [] OTHER -> "short_answer"

\* canvas_export.py:33-41: the group a question is rendered in, "" for none
KindGroup(it) ==
    LET kind == IF Truthy(Get(it.kind)) THEN strip(lower(it.kind.s)) ELSE <<>>
    IN  CASE kind \in {<<"mcq">>, <<"multiple_choice">>, <<"multiple_choice_question">>} -> "mcq"
          [] kind \in {<<"short_answer">>, <<"short-answer">>, <<"shortanswer">>} -> "short_answer"
          [] kind \in {<<"true_false">>, <<"truefalse">>, <<"tf">>} -> "true_false"
          [] kind \in {<<"essay">>, <<"long_answer">>, <<"longanswer">>} -> "essay"
          [] OTHER -> ""

Groups == <<"mcq", "short_answer", "true_false", "essay">>

OfGroup(items, g) == SelectSeq(items, LAMBDA it : KindGroup(it) = g)

\* points.get(kind, default), as text
DefaultPoints(g) ==
    CASE g = "mcq" -> "3" [] g = "short_answer" -> "4"
      [] g = "true_false" -> "2" [] OTHER -> "5"

PointsOf(points, g) == IF g \in DOMAIN points THEN points[g] ELSE DefaultPoints(g)

GroupTitle(g) ==
    CASE g = "mcq" -> "### Multiple Choice Questions (MCQ) - "
      [] g = "short_answer" -> "### Short Answer Questions - "
      [] g = "true_false" -> "### True/False Questions (T/F) - "
      [] OTHER -> "### Essay Questions - "

FormatItem(g, qnum, it) ==
    CASE g = "mcq" -> _format_mcq(qnum, it)
      [] g = "short_answer" -> _format_short_answer(qnum, it)
      [] g = "true_false" -> _format_true_false(qnum, it)
      [] OTHER -> _format_essay(qnum, it)

\* the lines of the questions of one group, numbered from qnum on, each
\* followed by an empty line
RECURSIVE GroupItemLines(_, _, _)
GroupItemLines(g, qnum, its) ==
    IF its = <<>> THEN <<>>
    ELSE FormatItem(g, qnum, Head(its)) \o << <<>> >>
         \o GroupItemLines(g, qnum + 1, Tail(its))

\* the lines with the question number starting again in every group
RECURSIVE SectionLines_ResetsNumber(_, _, _, _)
SectionLines_ResetsNumber(gi, qnum, items, points) ==
    IF gi > Len(Groups) THEN <<>>
    ELSE LET g == Groups[gi]
             its == OfGroup(items, g)
         IN  (IF its = <<>> THEN <<>>
              ELSE << <<GroupTitle(g), PointsOf(points, g), " points each", "\n">> >>
                   \o GroupItemLines(g, 1, its))
             \o SectionLines_ResetsNumber(gi + 1, 1, items, points)

\* canvas_export.py:46-72: lines, from group number gi on
RECURSIVE SectionLines(_, _, _, _)
SectionLines(gi, qnum, items, points) ==
    IF gi > Len(Groups) THEN <<>>
    ELSE LET g == Groups[gi]
             its == OfGroup(items, g)
         IN  (IF its = <<>> THEN <<>>
              ELSE << <<GroupTitle(g), PointsOf(points, g), " points each", "\n">> >>
                   \o GroupItemLines(g, qnum, its))
             \o SectionLines(gi + 1, qnum + Len(its), items, points)

\* canvas_export.py:30-78; lines is the local list, markdown the value returned
render_canvas_markdown(label, items, points) ==
    LET lines == SectionLines(1, 1, items, points)
        preface == IF strip(label) # <<>>
                   THEN <<"<!-- Prompt: ">> \o strip(label) \o <<" -->", "\n">>
                   ELSE <<>>
        body == rstrip(JoinWith(<<"\n">>, lines)) \o <<"\n">>
    IN  [lines |-> lines, markdown |-> preface \o body]

\* The question dicts the renderer is run on.
Opts3 == List(<<Str(<<"Paris">>), Str(<<"London">>), Str(<<"Rome">>)>>)
Opts6 ==
    List(<<Str(<<"Oslo">>), Str(<<" ">>), Str(<<"Paris">>),
           Str(<<"LONDON", " ", "\n", "Town">>), Str(<<"Rome">>), Str(<<"Bern">>)>>)

Mcq(options, answer) ==
    CanvasItem(Str(<<"mcq">>), Str(<<"Capital?">>), options, answer, Null, Null)

McqItems ==
    {Mcq(Opts3, a) :
        a \in {Str(<<"London">>), Str(<<" ", "LONDON", "\n">>), Str(<<"b">>),
               Str(<<" ", "C", " ">>), Str(<<"-">>), Null}}
    \cup {Mcq(Opts6, a) : a \in {Str(<<"london", " ", "town">>), Str(<<"Bern">>)}}
    \cup {CanvasItem(Str(<<" ", "MCQ">>), Null, Opts3, Str(<<"Rome">>),
                     Str(<<"Because", " ", " ", "so">>), Str(<<" ", "p.1">>))}

TrueFalse(answer) ==
    CanvasItem(Str(<<"true_false">>), Str(<<"Water", " ", "is", " ", "wet">>),
               Null, answer, Null, Null)

TrueFalseItems ==
    {TrueFalse(a) :
        a \in {Str(<<"T">>), Str(<<" ", "TRUE", " ">>), Str(<<"Yes">>), Str(<<"1">>),
               Num(<<"1">>), Str(<<"No">>), Null}}

OtherItems ==
    {CanvasItem(Str(<<"short_answer">>), Str(<<"Why?">>), Null, Str(<<"Paris">>), Null, Null),
     CanvasItem(Str(<<"essay">>), Str(<<"Discuss">>), Null, Null, Null, Null),
     CanvasItem(Str(<<"quiz">>), Str(<<"Q">>), Null, Null, Null, Null)}

CanvasItems == McqItems \cup TrueFalseItems \cup OtherItems

\* The prompt labels, each with a point mapping: {} as the generator passes
\* it (services.py:74), or a configured mapping.
Labelled ==
    {<< <<>>, <<>> >>, << <<" ">>, [g \in {"mcq", "true_false"} |-> "7"] >>,
     << <<" ", "Quiz", " ", "1", "\n">>, <<>> >>}

Canvas(label, items, points) == [prompt |-> label, items |-> items, points |-> points]

IdleRender ==
    /\ canvas = Canvas(<<>>, <<>>, <<>>)
    /\ rendered = <<>>
    /\ otherRenders = 0

\* Render with options padded in the caller's list
Render_PadsInPlace ==
    /\ Len(rendered) < MaxRenders
    /\ rendered' = Append(rendered,
           render_canvas_markdown(canvas.prompt, canvas.items, canvas.points))
    /\ canvas' = [canvas EXCEPT !.items =
           [i \in DOMAIN canvas.items |->
               IF KindGroup(canvas.items[i]) = "mcq"
               THEN [canvas.items[i] EXCEPT !.options =
                        List([k \in 1..4 |->
                            Str(_ensure_four_options(Get(canvas.items[i].options))[k])])]
               ELSE canvas.items[i]]]
    /\ UNCHANGED <<otherRenders, notRender>>

\* services.py:74, :111 and canvas_export.py:23: one call of
\* render_canvas_markdown on the question set
Render ==
    /\ Len(rendered) < MaxRenders
    /\ rendered' = Append(rendered,
           render_canvas_markdown(canvas.prompt, canvas.items, canvas.points))
    /\ UNCHANGED <<canvas, otherRenders, notRender>>

\* a call of render_canvas_markdown on another question set, between the
\* calls on this one
RenderOther ==
    /\ otherRenders = 0
    /\ otherRenders' = otherRenders + 1
    /\ UNCHANGED <<canvas, rendered, notRender>>

NextRender == Render \/ RenderOther

\* The question dicts of the layout runs: mcq questions with no options, an
\* empty list, three and six options (one of them blank); one or two
\* questions of the other kinds, one under an alias of its kind; and
\* questions of an unknown, a null and a missing kind.
Opts0 == List(<<>>)

Plain(kind, text) == CanvasItem(kind, Str(text), Null, Null, Null, Null)

PlainItems ==
    {CanvasItem(Str(<<"mcq">>), Str(<<"Capital?">>), o, Str(<<"b">>), Null, Null) :
        o \in {Null, Opts0, Opts3, Opts6}}
    \cup {Plain(Str(<<"short_answer">>), <<"Why?">>),
          Plain(Str(<<"true_false">>), <<"Water", " ", "is", " ", "wet">>),
          Plain(Str(<<"TF">>), <<"Yes">>),
          Plain(Str(<<"essay">>), <<"Discuss">>),
          Plain(Str(<<"quiz">>), <<"Q">>),
          Plain(Null, <<"No">>),
          Plain(Absent, <<"Town">>)}

NextLayout == Render

----------------------------------------------------------------------------
(* Streamed generation: services.py, stream_generate_questions, consumed   *)
(* by event_stream of main.py, generate_question_set_stream.               *)

\* delta.get("content") of one stream item: None, "" or a piece of text
FragmentVals == {Null, Str(<<>>), Str(<<"a">>), Str(<<"b">>)}

\* What the backend's answer holds, one of each outcome of the normalizer.
StreamContents ==
    {Content("", "object", List(<<QEntry>>), Absent),
     Content("", "object", List(<<QEntry, Str(<<"x">>), QEntry>>), Absent),
     Content("", "object", Absent, Str(<<"no context">>)),
     Content("", "invalid", Null, Absent),
     Content("", "array", List(<<>>), Absent),
     Content("", "array",
             List(<<Entry(Num(<<"5">>), Absent, Absent, Absent, Absent, Absent, Absent)>>),
             Absent)}

\* "".join(parts)
RECURSIVE Join(_)
Join(parts) == IF parts = <<>> THEN <<>> ELSE Head(parts) \o Join(Tail(parts))

RECURSIVE TruthyTexts(_)
TruthyTexts(fs) ==
    IF fs = <<>> THEN <<>>
    ELSE (IF Truthy(Head(fs)) THEN <<Head(fs).s>> ELSE <<>>) \o TruthyTexts(Tail(fs))

\* The full text the backend sends over the whole stream.
BackendText == Join(TruthyTexts(fragments))

\* What a text holds: the backend's full text holds backendContent; the
\* empty text and every other text is no JSON document.
Holds(text) ==
    IF text = BackendText /\ text # <<>> THEN backendContent
    ELSE Content("", "invalid", Null, Absent)

Event(type, text, qs, message) ==
    [type |-> type, content |-> text, raw_response |-> text,
     questions |-> qs, markdown |-> <<>>, message |-> message]

\* payload.instructions of the request (schemas.py:41, at least 5 characters)
StreamInstructions == <<"Write", " ", "questions">>

\* Question.model_dump(): the dict render_canvas_markdown is handed
model_dump(q) == CanvasItem(Str(q.kind), Str(q.text), q.options, q.answer, Null, Null)

\* services.py:111 (and :74): the markdown of the normalized questions
MarkdownOf(qs) ==
    render_canvas_markdown(StreamInstructions,
                           [i \in DOMAIN qs |-> model_dump(qs[i])], <<>>).markdown

ChunkEvent(text) == Event("chunk", text, <<>>, <<>>)
CompleteEvent(qs, text) ==
    [Event("complete", text, qs, <<>>) EXCEPT !.markdown = MarkdownOf(qs)]
ErrorEvent(message) == Event("error", <<>>, <<>>, message)

MsgNoKey == <<"OPENAI_API_KEY (or LITELLM_API_KEY) must be set to use the question generator.">>
MsgRequestFailed == <<"LLM request failed">>

Terminal == {"complete", "error"}

\* the answer of POST /api/question-sets/generate (main.py:246-251)
Answer(status, detail) == [status |-> status, detail |-> detail]
NoAnswer == Answer(0, <<>>)

IdleStream ==
    /\ hasCreds = TRUE /\ openFails = FALSE /\ fragments = <<>> /\ failAt = 0
    /\ backendContent = Content("", "invalid", Null, Absent)
    /\ pc = "idle" /\ pos = 0 /\ collected = <<>> /\ events = <<>>
    /\ parseRuns = 0 /\ requestsSent = 0 /\ response = NoAnswer

envVars == <<hasCreds, openFails, fragments, failAt, backendContent>>

\* Start without the credentials check
Start_NoCheck ==
    /\ pc = "start"
    /\ pc' = "opening"
    /\ UNCHANGED <<envVars, events, pos, collected, parseRuns, requestsSent,
                   response, notStream>>

\* services.py:84-88: the first step of the generator, the credentials check.
\* A QuestionGenerationError is caught by event_stream (main.py:260-261).
Start ==
    /\ pc = "start"
    /\ IF hasCreds
       THEN pc' = "opening" /\ UNCHANGED events
       ELSE pc' = "done" /\ events' = Append(events, ErrorEvent(MsgNoKey))
    /\ UNCHANGED <<envVars, pos, collected, parseRuns, requestsSent, response, notStream>>

\* services.py:89-98: await acompletion(..., stream=True)
Open ==
    /\ pc = "opening"
    /\ requestsSent' = requestsSent + 1
    /\ IF openFails
       THEN pc' = "done" /\ events' = Append(events, ErrorEvent(MsgRequestFailed))
       ELSE pc' = "streaming" /\ UNCHANGED events
    /\ UNCHANGED <<envVars, pos, collected, parseRuns, response, notStream>>

\* NextChunk with the fragments collected but forwarded only at the end
NextChunk_Buffered ==
    /\ pc = "streaming"
    /\ failAt # pos + 1
    /\ pos < Len(fragments)
    /\ pos' = pos + 1
    /\ LET c == fragments[pos + 1]
       IN  collected' = IF Truthy(c) THEN Append(collected, c.s) ELSE collected
    /\ UNCHANGED <<envVars, pc, events, parseRuns, requestsSent, response, notStream>>

\* services.py:101-107: one item of "async for chunk in stream"
NextChunk ==
    /\ pc = "streaming"
    /\ failAt # pos + 1
    /\ pos < Len(fragments)
    /\ pos' = pos + 1
    /\ LET c == fragments[pos + 1]
       IN  IF ~Truthy(c)
           THEN UNCHANGED <<collected, events>>
           ELSE /\ collected' = Append(collected, c.s)
                /\ events' = Append(events, ChunkEvent(c.s))
    /\ UNCHANGED <<envVars, pc, parseRuns, requestsSent, response, notStream>>

\* services.py:101: the backend stream raises while it is iterated.  The
\* exception is no QuestionGenerationError: neither stream_generate_questions
\* nor event_stream (main.py:257-261) catches it, and the response ends.
StreamRaises ==
    /\ pc = "streaming"
    /\ failAt = pos + 1
    /\ pc' = "crashed"
    /\ UNCHANGED <<envVars, pos, collected, events, parseRuns, requestsSent, response, notStream>>

\* Finish reporting the last fragment collected as the raw response
Finish_RawOfLastChunk ==
    /\ pc = "streaming"
    /\ failAt # pos + 1
    /\ pos = Len(fragments)
    /\ parseRuns' = parseRuns + 1
    /\ LET full_text == Join(collected)
           parsed == _parse_questions(Holds(full_text))
       IN  CASE parsed.tag = "ok" ->
                  /\ events' = Append(events,
                         CompleteEvent(parsed.questions, collected[Len(collected)]))
                  /\ pc' = "done"
             [] parsed.tag = "raise" /\ parsed.exc = "QuestionGenerationError" ->
                  /\ events' = Append(events, ErrorEvent(parsed.msg))
                  /\ pc' = "done"
             [] OTHER ->
                  /\ UNCHANGED events
                  /\ pc' = "crashed"
    /\ UNCHANGED <<envVars, pos, collected, requestsSent, response, notStream>>

\* services.py:109-117: the stream is exhausted; normalize and yield
\* "complete".  A QuestionGenerationError becomes the error event of
\* main.py:261; any other exception ends the response.
Finish ==
    /\ pc = "streaming"
    /\ failAt # pos + 1
    /\ pos = Len(fragments)
    /\ parseRuns' = parseRuns + 1
    /\ LET full_text == Join(collected)
           parsed == _parse_questions(Holds(full_text))
       IN  CASE parsed.tag = "ok" ->
                  /\ events' = Append(events, CompleteEvent(parsed.questions, full_text))
                  /\ pc' = "done"
             [] parsed.tag = "raise" /\ parsed.exc = "QuestionGenerationError" ->
                  /\ events' = Append(events, ErrorEvent(parsed.msg))
                  /\ pc' = "done"
             [] OTHER ->
                  /\ UNCHANGED events
                  /\ pc' = "crashed"
    /\ UNCHANGED <<envVars, pos, collected, requestsSent, response, notStream>>

\* Abandon with a handler that answers the cancellation with an error event
Abandon_Reports ==
    /\ pc \in {"start", "opening", "streaming"}
    /\ pc' = "abandoned"
    /\ events' = Append(events, ErrorEvent(<<"cancelled">>))
    /\ UNCHANGED <<envVars, pos, collected, parseRuns, requestsSent, response, notStream>>

\* The caller stops reading the response while the generator is suspended
\* (main.py:258-259, services.py:90, :101, :107): the generator is closed,
\* nothing after the suspension point runs.
Abandon ==
    /\ pc \in {"start", "opening", "streaming"}
    /\ pc' = "abandoned"
    /\ UNCHANGED <<envVars, pos, collected, events, parseRuns, requestsSent, response, notStream>>

\* services.py:56-80 behind main.py:246-251: the batch endpoint, one call.
\* A QuestionGenerationError is answered 400; any other exception 500.
generate_questions ==
    /\ pc = "start"
    /\ pc' = "answered"
    /\ IF ~hasCreds
       THEN response' = Answer(400, MsgNoKey) /\ UNCHANGED <<requestsSent, parseRuns>>
       ELSE /\ requestsSent' = requestsSent + 1
            /\ IF openFails
               THEN response' = Answer(400, MsgRequestFailed) /\ UNCHANGED parseRuns
               ELSE /\ parseRuns' = parseRuns + 1
                    /\ LET parsed == _parse_questions(backendContent)
                       IN  response' =
                             CASE parsed.tag = "ok" -> Answer(200, <<>>)
                               [] parsed.tag = "raise"
                                     /\ parsed.exc = "QuestionGenerationError" ->
                                  Answer(400, parsed.msg)
                               [] OTHER -> Answer(500, <<>>)
    /\ UNCHANGED <<envVars, pos, collected, events, notStream>>

NextStream ==
    \/ Start \/ Open \/ NextChunk \/ StreamRaises \/ Finish \/ Abandon
    \/ generate_questions

----------------------------------------------------------------------------
(* The question-set store: server/question_sets.py over the tables of      *)
(* server/app.py, _ensure_question_tables.  A row of questions is read by  *)
(* its set_id and in id order only, and AUTOINCREMENT ids grow, so the     *)
(* table is kept as the rows of each set_id in insertion order.            *)

SetIds == 1..MaxSets

\* A question as the callers hand it over (Question.model_dump()); of its
\* keys the store model keeps kind and text.
Item(kind, text) == [kind |-> kind, text |-> text]

q1 == Item(<<"MCQ">>, <<"q1">>)
q2 == Item(<<"essay">>, <<" ", "q2">>)
q3 == Item(<<"mcq">>, <<"q3">>)
blank == Item(<<>>, <<" ">>)

\* The question lists the callers supply: none, one, two, and one with a
\* question whose text is blank.
ItemLists == {<<>>, <<q1>>, <<q2, q1>>, <<q1, blank>>}

CreatePrompts == {Str(<<"p1">>)}
UpdatePrompts == {Null, Str(<<"p2">>)}

\* question_sets.py:127-142, _normalize_question: None when the text is blank
_normalize_question(it) ==
    LET kind == IF lower(strip(it.kind)) # <<>> THEN lower(strip(it.kind))
                ELSE <<"short_answer">>
        text == strip(it.text)
    IN  IF text = <<>> THEN Null ELSE Item(kind, text)

\* question_sets.py:112-124, _replace_questions: the rows it inserts
RECURSIVE InsertedRows(_)
InsertedRows(items) ==
    IF items = <<>> THEN <<>>
    ELSE LET q == _normalize_question(Head(items))
         IN  (IF q = Null THEN <<>> ELSE <<q>>) \o InsertedRows(Tail(items))

\* db.py:7-10, get_conn: the connection is opened without
\* PRAGMA foreign_keys=ON, so SQLite does not enforce questions.set_id.
ForeignKeysEnforced == FALSE

\* question_sets.py:30-50, get_question_set
get_question_set(set_id) ==
    IF set_id \in DOMAIN question_sets
    THEN [found |-> TRUE, prompt |-> question_sets[set_id],
          questions |-> questions[set_id]]
    ELSE [found |-> FALSE, prompt |-> Null, questions |-> <<>>]

\* a call of the store API and its outcome; items is the question list a
\* create call that succeeded was given
Call(op, set_id, status) ==
    [op |-> op, set_id |-> set_id, status |-> status, items |-> <<>>]

\* question_sets.py:85-94, the transaction of update_question_set: the table
\* question_sets after it
SetsAfterUpdate(set_id, prompt) ==
    IF prompt # Null /\ set_id \in DOMAIN question_sets
    THEN [question_sets EXCEPT ![set_id] = prompt]
    ELSE question_sets

\* and the table questions after it: with foreign keys enforced the first
\* insert for a missing set raises and the transaction is rolled back
QuestionsAfterUpdate(set_id, items) ==
    IF ForeignKeysEnforced /\ set_id \notin DOMAIN question_sets
          /\ InsertedRows(items) # <<>>
    THEN questions
    ELSE [questions EXCEPT ![set_id] = InsertedRows(items)]

\* The answer of preview_question_insertion: the HTTP status, the request
\* (set_id, requested index, new questions), the question list that was
\* loaded (existing) and the planner's three results.
Preview(status, set_id, requested, existing, new, plan) ==
    [status |-> status, set_id |-> set_id, requested |-> requested,
     existing |-> existing, new |-> new,
     insert_index |-> plan.insert_index,
     merged_questions |-> plan.merged_questions,
     preview_questions |-> plan.preview_questions]

NoPlan == [insert_index |-> 0, merged_questions |-> <<>>, preview_questions |-> <<>>]

NoPreview == Preview(0, 0, 0, <<>>, <<>>, NoPlan)

IdleStore ==
    /\ question_sets = <<>> /\ questions = [id \in SetIds |-> <<>>]
    /\ nextSetId = 1 /\ pending = {} /\ lastCall = Call("none", 0, 0)

\* question_sets.py:53-72 behind main.py:218-224: one transaction inserts the
\* set and its questions; no questions is a ValueError (400).
create_question_set ==
    \E prompt \in CreatePrompts, items \in ItemLists :
        /\ nextSetId <= MaxSets
        /\ IF Len(items) = 0
           THEN /\ lastCall' = Call("create", 0, 400)
                /\ UNCHANGED <<question_sets, questions, nextSetId>>
           ELSE /\ question_sets' =
                    [id \in DOMAIN question_sets \cup {nextSetId} |->
                        IF id = nextSetId THEN prompt ELSE question_sets[id]]
                /\ questions' = [questions EXCEPT
                                    ![nextSetId] = @ \o InsertedRows(items)]
                /\ nextSetId' = nextSetId + 1
                /\ lastCall' = [Call("create", nextSetId, 201) EXCEPT !.items = items]
        /\ UNCHANGED <<pending, preview, notStore>>

\* update_check with the items checked before the set is looked up
update_check_ItemsFirst ==
    \E set_id \in SetIds, prompt \in UpdatePrompts, items \in ItemLists :
        /\ Cardinality(pending) < MaxPending
        /\ IF Len(items) = 0
           THEN lastCall' = Call("update", set_id, 400) /\ UNCHANGED pending
           ELSE IF ~get_question_set(set_id).found
           THEN lastCall' = Call("update", set_id, 404) /\ UNCHANGED pending
           ELSE /\ pending' = pending \cup
                       {[set_id |-> set_id, prompt |-> prompt, items |-> items]}
                /\ lastCall' = Call("update_check", set_id, 0)
        /\ UNCHANGED <<question_sets, questions, nextSetId, preview, notStore>>

\* question_sets.py:80-83 behind main.py:227-235: the existence check (its
\* own connection) and the check of the items; a call that passes goes on to
\* its transaction in a later step.
update_check ==
    \E set_id \in SetIds, prompt \in UpdatePrompts, items \in ItemLists :
        /\ Cardinality(pending) < MaxPending
        /\ IF ~get_question_set(set_id).found
           THEN lastCall' = Call("update", set_id, 404) /\ UNCHANGED pending
           ELSE IF Len(items) = 0
           THEN lastCall' = Call("update", set_id, 400) /\ UNCHANGED pending
           ELSE /\ pending' = pending \cup
                       {[set_id |-> set_id, prompt |-> prompt, items |-> items]}
                /\ lastCall' = Call("update_check", set_id, 0)
        /\ UNCHANGED <<question_sets, questions, nextSetId, preview, notStore>>

\* question_sets.py:85-101: the transaction of update_question_set (UPDATE of
\* the prompt, DELETE of the set's questions, the inserts) and the reload; a
\* set that is gone by now is a RuntimeError after the commit (500).
update_commit ==
    \E call \in pending :
        /\ pending' = pending \ {call}
        /\ question_sets' = SetsAfterUpdate(call.set_id, call.prompt)
        /\ questions' = QuestionsAfterUpdate(call.set_id, call.items)
        /\ lastCall' = Call("update", call.set_id,
                            IF call.set_id \in DOMAIN question_sets
                            THEN 200 ELSE 500)
        /\ UNCHANGED <<nextSetId, preview, notStore>>

\* question_sets.py:104-109 behind main.py:238-243: 404 for a set that does
\* not exist, else one transaction deletes the questions and the set.
delete_question_set ==
    \E set_id \in SetIds :
        /\ IF ~get_question_set(set_id).found
           THEN /\ lastCall' = Call("delete", set_id, 404)
                /\ UNCHANGED <<question_sets, questions>>
           ELSE /\ questions' = [questions EXCEPT ![set_id] = <<>>]
                /\ question_sets' =
                      [id \in DOMAIN question_sets \ {set_id} |-> question_sets[id]]
                /\ lastCall' = Call("delete", set_id, 204)
        /\ UNCHANGED <<nextSetId, pending, preview, notStore>>

NextStore ==
    \/ create_question_set \/ update_check \/ update_commit
    \/ delete_question_set

----------------------------------------------------------------------------
(* The insertion preview: main.py, preview_question_insertion, and the     *)
(* planner it calls, generate_insertion_preview.                           *)

\* The bound of the merged lists a caller commits.
MaxStored == 4

\* the requested zero-based insert indexes
RequestedIndexes == {-2, -1, 0, 1, 2, 3, 5}

\* the newly normalized questions of a request
NewLists ==
    {<<>>, <<_normalize_question(q3)>>, <<_normalize_question(q1)>>,
     <<_normalize_question(q3), _normalize_question(q1)>>}

\* The planner of the insertion: the index clamped into [0, len(existing)]
\* and the new questions spliced in at it.
InsertionPlanner(existing, new, index) ==
    LET at == IF index < 0 THEN 0
              ELSE IF index > Len(existing) THEN Len(existing)
              ELSE index
    IN  [insert_index |-> at,
         merged_questions |->
             SubSeq(existing, 1, at) \o new \o SubSeq(existing, at + 1, Len(existing)),
         preview_questions |-> new]

\* preview_question_insertion answering with the index of the request
\* instead of the index the planner used
preview_question_insertion_RequestIndex ==
    \E set_id \in SetIds, index \in RequestedIndexes, new \in NewLists :
        LET question_set_payload == get_question_set(set_id)
            plan == InsertionPlanner(question_set_payload.questions, new, index)
        IN  /\ question_set_payload.found
            /\ preview' = Preview(200, set_id, index, question_set_payload.questions,
                                  new, [plan EXCEPT !.insert_index = index])
            /\ UNCHANGED <<storeVars, notStore>>

\* preview_question_insertion answering with the new questions appended to
\* the loaded list, whatever the index
preview_question_insertion_Appends ==
    \E set_id \in SetIds, index \in RequestedIndexes, new \in NewLists :
        LET question_set_payload == get_question_set(set_id)
            plan == InsertionPlanner(question_set_payload.questions, new, index)
        IN  /\ question_set_payload.found
            /\ preview' = Preview(200, set_id, index, question_set_payload.questions,
                                  new, [plan EXCEPT !.merged_questions =
                                           question_set_payload.questions \o new])
            /\ UNCHANGED <<storeVars, notStore>>

\* preview_question_insertion saving the merged list it computed
preview_question_insertion_Saves ==
    \E set_id \in SetIds, index \in RequestedIndexes, new \in NewLists :
        LET question_set_payload == get_question_set(set_id)
            plan == InsertionPlanner(question_set_payload.questions, new, index)
        IN  /\ question_set_payload.found
            /\ preview' = Preview(200, set_id, index, question_set_payload.questions,
                                  new, plan)
            /\ questions' = [questions EXCEPT ![set_id] = plan.merged_questions]
            /\ UNCHANGED <<question_sets, nextSetId, pending, lastCall, notStore>>

\* main.py:293-311: load the set (404 when it is missing), let the planner
\* generate and merge (a QuestionGenerationError is a 400), answer with the
\* planner's results.
preview_question_insertion ==
    \E set_id \in SetIds, index \in RequestedIndexes, new \in NewLists,
       generationFails \in BOOLEAN :
        LET question_set_payload == get_question_set(set_id)
            plan == InsertionPlanner(question_set_payload.questions, new, index)
        IN  /\ preview' =
                 IF ~question_set_payload.found
                 THEN Preview(404, set_id, index, <<>>, new, NoPlan)
                 ELSE IF generationFails
                 THEN Preview(400, set_id, index, question_set_payload.questions,
                              new, NoPlan)
                 ELSE Preview(200, set_id, index, question_set_payload.questions,
                              new, plan)
            /\ UNCHANGED <<storeVars, notStore>>

\* The caller commits a preview it reviewed: update_question_set(set_id,
\* None, merged_questions), question_sets.py:75-101 behind main.py:227-235,
\* here by the only caller, check and transaction in one step.
commit_preview ==
    /\ preview.status = 200
    /\ Len(preview.merged_questions) <= MaxStored
    /\ IF ~get_question_set(preview.set_id).found
       THEN lastCall' = Call("update", preview.set_id, 404)
            /\ UNCHANGED <<question_sets, questions>>
       ELSE IF Len(preview.merged_questions) = 0
       THEN lastCall' = Call("update", preview.set_id, 400)
            /\ UNCHANGED <<question_sets, questions>>
       ELSE /\ question_sets' = SetsAfterUpdate(preview.set_id, Null)
            /\ questions' = QuestionsAfterUpdate(preview.set_id, preview.merged_questions)
            /\ lastCall' = Call("update", preview.set_id, 200)
    /\ UNCHANGED <<nextSetId, pending, preview, notStore>>

NextPreview == preview_question_insertion \/ commit_preview

----------------------------------------------------------------------------
(* The quota deriver: services.py, _derive_type_counts over TYPE_PATTERNS. *)
(* An instruction text is a sequence of tokens separated by whitespace: a  *)
(* run of digits, a kind alias, the word questions or items, another word. *)

Numbers == {"1", "2"}

\* int(match.group(1))
IntOf(tok) == CASE tok = "1" -> 1 [] tok = "2" -> 2 [] OTHER -> 0

\* str.lower() on one token
LowerToken(tok) ==
    CASE tok = "MCQ" -> "mcq"
      [] tok = "MCQs" -> "mcqs"
      [] tok = "Short Answer" -> "short answer"
      [] tok = "Essays" -> "essays"
      [] tok = "Questions" -> "questions"
      [] tok = "Write" -> "write"
      [] OTHER -> tok

Kinds == {"mcq", "short_answer", "true_false", "essay"}

\* services.py:37-42, TYPE_PATTERNS: the lower-case tokens at whose start the
\* pattern of a kind matches
TYPE_PATTERNS(kind) ==
    CASE kind = "mcq" ->
            {"mcq", "mcqs", "multiple choice", "multiple choice questions"}
      [] kind = "short_answer" ->
            {"short answer", "short-answer", "short-answers", "shortanswer",
             "short answer questions"}
      [] kind = "true_false" ->
            {"true or false", "true/false", "true false", "tf"}
      [] kind = "essay" ->
            {"essay", "essays", "essay questions"}

\* the tokens at whose start questions|items matches
GeneralPattern == {"questions", "items"}

\* the places where (\d+)\s*(?:pattern) matches: a number and, right after
\* it, a token of the pattern
Matches(text, pattern) ==
    {i \in 1..(Len(text) - 1) : text[i] \in Numbers /\ text[i + 1] \in pattern}

RECURSIVE SumAt(_, _)
SumAt(text, places) ==
    IF places = {} THEN 0
    ELSE LET i == CHOOSE j \in places : TRUE
         IN  IntOf(text[i]) + SumAt(text, places \ {i})

Some(n) == [some |-> TRUE, value |-> n]
None == [some |-> FALSE, value |-> 0]

NotDerived == [called |-> FALSE, counts |-> <<>>, total |-> None]

\* _derive_type_counts matching case-sensitively
_derive_type_counts_CaseSensitive(instr) ==
    LET matched == {k \in Kinds : Matches(instr, TYPE_PATTERNS(k)) # {}}
        counts == [k \in matched |-> SumAt(instr, Matches(instr, TYPE_PATTERNS(k)))]
    IN  [called |-> TRUE, counts |-> counts,
         total |-> IF matched # {} THEN Some(SumAt(instr, UNION {Matches(instr, TYPE_PATTERNS(k)) : k \in matched}))
                   ELSE None]

\* _derive_type_counts keeping the last match of a kind instead of the sum
_derive_type_counts_LastMatch(instr) ==
    LET text == [i \in DOMAIN instr |-> LowerToken(instr[i])]
        matched == {k \in Kinds : Matches(text, TYPE_PATTERNS(k)) # {}}
        last(k) == CHOOSE i \in Matches(text, TYPE_PATTERNS(k)) :
                       \A j \in Matches(text, TYPE_PATTERNS(k)) : j <= i
        general == Matches(text, GeneralPattern)
    IN  [called |-> TRUE, counts |-> [k \in matched |-> IntOf(text[last(k)])],
         total |->
            IF matched # {}
            THEN Some(SumAt(text, UNION {Matches(text, TYPE_PATTERNS(k)) : k \in matched}))
            ELSE IF general # {}
            THEN Some(IntOf(text[CHOOSE i \in general : \A j \in general : i <= j]))
            ELSE None]

\* services.py:232-248
_derive_type_counts(instr) ==
    LET text == [i \in DOMAIN instr |-> LowerToken(instr[i])]
        matched == {k \in Kinds : Matches(text, TYPE_PATTERNS(k)) # {}}
        counts == [k \in matched |-> SumAt(text, Matches(text, TYPE_PATTERNS(k)))]
        RECURSIVE SumCounts(_)
        SumCounts(ks) ==
            IF ks = {} THEN 0
            ELSE LET k == CHOOSE x \in ks : TRUE
                 IN  counts[k] + SumCounts(ks \ {k})
        general == Matches(text, GeneralPattern)
    IN  [called |-> TRUE, counts |-> counts,
         total |->
            IF matched # {} THEN Some(SumCounts(matched))
            ELSE IF general # {}
            THEN Some(IntOf(text[CHOOSE i \in general : \A j \in general : i <= j]))
            ELSE None]

\* The phrases of an instruction text: a number followed by a kind alias or
\* by questions/items, or a word on its own.
CountedWords ==
    {"MCQ", "mcqs", "Short Answer", "short-answers", "Essays", "tf",
     "Questions", "items"}

Phrases ==
    {<<n, w>> : n \in Numbers, w \in CountedWords}
    \cup {<<"Write">>, <<"mcqs">>}

Flatten(ps) == Join(ps)

IdleQuota == instructions = <<>> /\ derived = NotDerived

\* services.py:121, derived_type_counts, derived_total = _derive_type_counts(...)
Derive ==
    /\ ~derived.called
    /\ derived' = _derive_type_counts(instructions)
    /\ UNCHANGED <<instructions, notQuota>>

NextQuota == Derive

----------------------------------------------------------------------------
(* The prompt composer: services.py, _build_messages.  A context text is   *)
(* kept by its lengths: lead and trail whitespace characters around a body *)
(* that starts and ends with other characters.                             *)

\* services.py:36, the default of QUESTION_CONTEXT_CHAR_LIMIT
MAX_CONTEXT_CHARS == 60000

ContextText(lead, body, trail) ==
    [isNone |-> FALSE, lead |-> lead, body |-> body, trail |-> trail]
NoContext == [isNone |-> TRUE, lead |-> 0, body |-> 0, trail |-> 0]

\* len(context)
ContextLen(c) == c.lead + c.body + c.trail

\* a part of the supplied context: length characters from offset on
Excerpt(offset, length) == [present |-> TRUE, offset |-> offset, length |-> length]
NoExcerpt == [present |-> FALSE, offset |-> 0, length |-> 0]

\* schemas.py:40-44, QuestionGenerationRequest
QuestionGenerationRequest(instr, question_count, question_types, context) ==
    [instructions |-> instr, question_count |-> question_count,
     question_types |-> question_types, context |-> context]

\* the forms of the count guidance, services.py:134, :136, :138
OpenEnded == [form |-> "only the requested", n |-> 0]
Exactly(n) == [form |-> "exactly n", n |-> n]
ExactlyTotal(n) == [form |-> "exactly n total, matching the per-type counts", n |-> n]

\* the forms of the type guidance, services.py:122, :125, :130
FreeTypes == [form |-> "free", types |-> <<>>, counts |-> <<>>]
PreferredTypes(types) == [form |-> "preferred", types |-> types, counts |-> <<>>]
ExactTypes(counts) == [form |-> "exactly these", types |-> <<>>, counts |-> counts]

NoPrompt ==
    [called |-> FALSE, type_instruction |-> FreeTypes,
     count_instruction |-> OpenEnded, context_block |-> NoExcerpt,
     forbids_other_types |-> FALSE]

\* services.py:120-181
_build_messages(payload) ==
    LET d == _derive_type_counts(payload.instructions)
        derived_type_counts == d.counts
        derived_total == d.total
        hasCounts == DOMAIN derived_type_counts # {}
        type_instruction ==
            IF payload.question_types.some /\ payload.question_types.value # <<>>
            THEN PreferredTypes(payload.question_types.value)
            ELSE IF hasCounts THEN ExactTypes(derived_type_counts)
            ELSE FreeTypes
        \* payload.question_count or derived_total
        total_questions ==
            IF payload.question_count.some /\ payload.question_count.value # 0
            THEN payload.question_count
            ELSE derived_total
        count_instruction ==
            IF hasCounts /\ derived_total.some /\ derived_total.value # 0
            THEN ExactlyTotal(derived_total.value)
            ELSE IF total_questions.some THEN Exactly(total_questions.value)
            ELSE OpenEnded
        \* payload.context.strip() if payload.context else ""
        context_block ==
            IF ~payload.context.isNone /\ ContextLen(payload.context) > 0
            THEN Excerpt(IF payload.context.body = 0 THEN 0 ELSE payload.context.lead,
                         payload.context.body)
            ELSE NoExcerpt
    IN  [called |-> TRUE, type_instruction |-> type_instruction,
         count_instruction |-> count_instruction,
         context_block |-> context_block,
         forbids_other_types |-> hasCounts]

\* The requests the composer is run on.
ComposeInstructions ==
    {<<"Write">>, <<"Write", "2", "MCQ">>, <<"2", "mcqs", "1", "Short Answer">>,
     <<"2", "MCQ", "2", "mcqs">>, <<"Write", "2", "Questions">>,
     <<"1", "tf", "2", "items">>}

QuestionCounts == {None, Some(1), Some(2), Some(5), Some(100)}
QuestionTypes == {None, Some(<<>>), Some(<<"mcq", "essay">>)}
ContextBodies == {0, 1, MAX_CONTEXT_CHARS - 1, MAX_CONTEXT_CHARS, MAX_CONTEXT_CHARS + 1}
Contexts ==
    {NoContext}
    \cup {ContextText(l, b, t) : l \in {0, 1}, b \in ContextBodies, t \in {0, 1}}

Requests ==
    {QuestionGenerationRequest(i, n, ts, c) :
        i \in ComposeInstructions, n \in QuestionCounts,
        ts \in QuestionTypes, c \in Contexts}

IdleCompose ==
    /\ request = QuestionGenerationRequest(<<>>, None, None, NoContext)
    /\ user_prompt = NoPrompt

\* services.py:60 / :87, messages = _build_messages(payload)
Compose ==
    /\ ~user_prompt.called
    /\ user_prompt' = _build_messages(request)
    /\ UNCHANGED <<request, notCompose>>

NextCompose == Compose

----------------------------------------------------------------------------
(* The MCP server: server/app.py.  Its tools read and write the tables     *)
(* papers, notes, question_sets and questions of the one SQLite file.      *)
(* Of a note the model keeps its id, its paper_id and its body; of a       *)
(* paper its id.                                                           *)

\* secrets.token_hex(16): the tokens session_handshake can draw
Nonces == 1..MaxNonces

\* nonce=None, nonce="" and the call of a tool that has no nonce parameter
NoNonce == 0

PaperIds == 1..MaxRows
NoteIds == 1..MaxRows
NoteTexts == {Null, Str(<<"body">>)}

\* paper_id=None, note_id=None and the NULL of notes.paper_id
NoId == 0

\* a table with an AUTOINCREMENT key: its rows and the last key given
Table(rows, seq) == [rows |-> rows, seq |-> seq]

Note(id, paper_id, body) == [id |-> id, paper_id |-> paper_id, body |-> body]

\* A tool call and what became of it: the nonce it carried, whether that
\* nonce had been issued and whether it had let a mutating call through
\* before, whether the call was blocked, and whether it changed a row.
ToolCall(tool, nonce, blocked, wrote) ==
    [tool |-> tool, nonce |-> nonce,
     issued |-> nonce \in _VALID_NONCES,
     reused |-> nonce \in authorised,
     blocked |-> blocked, wrote |-> wrote]

NoToolCall == [tool |-> "none", nonce |-> NoNonce, issued |-> FALSE,
               reused |-> FALSE, blocked |-> FALSE, wrote |-> FALSE]

\* app.py:177-180, _require_nonce: TRUE when it returns the error text
_require_nonce(nonce) == nonce = NoNonce \/ nonce \notin _VALID_NONCES

IdleMcp ==
    /\ _VALID_NONCES = {} /\ papers = Table({}, 0) /\ notes = Table({}, 0)
    /\ toolCall = NoToolCall /\ toolCalls = 0 /\ authorised = {}

\* every tool call is one more call answered
Answered(call) ==
    /\ toolCalls < MaxCalls
    /\ toolCalls' = toolCalls + 1
    /\ toolCall' = call

\* a call that passed _require_nonce
Passed(nonce) == authorised' = authorised \cup {nonce}

\* app.py:166-174, session_handshake: a fresh token joins _VALID_NONCES
session_handshake ==
    \E nonce \in Nonces \ _VALID_NONCES :
        /\ _VALID_NONCES' = _VALID_NONCES \cup {nonce}
        /\ Answered(ToolCall("session_handshake", NoNonce, FALSE, FALSE))
        /\ UNCHANGED <<papers, notes, authorised, question_sets, questions,
                       nextSetId, notMcp>>

\* tools/add_paper.py:5-17 behind app.py:204-207 and :235-238 (add_paper,
\* add_paper_tool): the paper is resolved and its row inserted, or
\* resolve_any_to_pdf raises and nothing is written
add_paper ==
    \E tool \in {"add_paper", "add_paper_tool"}, resolved \in BOOLEAN :
        /\ papers.seq < MaxRows
        /\ papers' = IF resolved
                     THEN Table(papers.rows \cup {papers.seq + 1}, papers.seq + 1)
                     ELSE papers
        /\ Answered(ToolCall(tool, NoNonce, FALSE, resolved))
        /\ UNCHANGED <<_VALID_NONCES, notes, authorised, question_sets,
                       questions, nextSetId, notMcp>>

\* the notes after INSERT INTO notes
InsertNote(paper_id, body) ==
    Table(notes.rows \cup {Note(notes.seq + 1, paper_id, body)}, notes.seq + 1)

\* tools/save_note.py:5-14 behind app.py:222-225 (save_note) and
\* app.py:609-664 (summarize_paper_tool): a note is inserted for the paper
\* id given, which no foreign key checks (db.py:7-10)
save_note ==
    \E tool \in {"save_note", "summarize_paper_tool"}, paper_id \in PaperIds :
        /\ notes.seq < MaxRows
        /\ notes' = InsertNote(paper_id, Str(<<"body">>))
        /\ Answered(ToolCall(tool, NoNonce, FALSE, TRUE))
        /\ UNCHANGED <<_VALID_NONCES, papers, authorised, question_sets,
                       questions, nextSetId, notMcp>>

\* app.py:183-194 behind :228-232 and :251-255 (delete_paper,
\* delete_paper_tool): the paper's notes are detached and the paper deleted
delete_paper ==
    \E tool \in {"delete_paper", "delete_paper_tool"}, paper_id \in PaperIds :
        /\ notes' = [notes EXCEPT !.rows =
               {IF n.paper_id = paper_id THEN [n EXCEPT !.paper_id = NoId] ELSE n :
                    n \in notes.rows}]
        /\ papers' = [papers EXCEPT !.rows = @ \ {paper_id}]
        /\ Answered(ToolCall(tool, NoNonce, FALSE,
               notes'.rows # notes.rows \/ papers'.rows # papers.rows))
        /\ UNCHANGED <<_VALID_NONCES, authorised, question_sets, questions,
                       nextSetId, notMcp>>

\* the note rows after UPDATE notes SET paper_id=?, body=? WHERE id=?
UpdatedNotes(old, paper_id, text) ==
    (notes.rows \ {old}) \cup
        {Note(old.id, IF paper_id # NoId THEN paper_id ELSE old.paper_id,
              IF text # Null THEN text ELSE old.body)}

\* app.py:275-337, save_note_tool
save_note_tool ==
    \E paper_id \in PaperIds \cup {NoId}, text \in NoteTexts,
       note_id \in NoteIds \cup {NoId}, nonce \in Nonces \cup {NoNonce} :
        LET found == {n \in notes.rows : n.id = note_id}
        IN  /\ note_id # NoId \/ notes.seq < MaxRows
            /\ IF _require_nonce(nonce)
               THEN /\ Answered(ToolCall("save_note_tool", nonce, TRUE, FALSE))
                    /\ UNCHANGED <<notes, authorised>>
               ELSE /\ Passed(nonce)
                    /\ IF note_id # NoId
                       THEN IF found = {}
                            THEN notes' = notes
                            ELSE notes' = [notes EXCEPT !.rows =
                                    UpdatedNotes(CHOOSE n \in found : TRUE,
                                                 paper_id, text)]
                       ELSE IF text = Null
                            THEN notes' = notes
                            ELSE notes' = InsertNote(paper_id, text)
                    /\ Answered(ToolCall("save_note_tool", nonce, FALSE,
                                         notes'.rows # notes.rows))
            /\ UNCHANGED <<_VALID_NONCES, papers, question_sets, questions,
                           nextSetId, notMcp>>

\* app.py:340-348, delete_note_tool
delete_note_tool ==
    \E note_id \in NoteIds, nonce \in Nonces \cup {NoNonce} :
        /\ IF _require_nonce(nonce)
           THEN /\ Answered(ToolCall("delete_note_tool", nonce, TRUE, FALSE))
                /\ UNCHANGED <<notes, authorised>>
           ELSE /\ Passed(nonce)
                /\ notes' = [notes EXCEPT !.rows = {n \in @ : n.id # note_id}]
                /\ Answered(ToolCall("delete_note_tool", nonce, FALSE,
                                     notes'.rows # notes.rows))
        /\ UNCHANGED <<_VALID_NONCES, papers, question_sets, questions,
                       nextSetId, notMcp>>

\* app.py:351-462 and :465-471, save_question_set and save_question_set_tool:
\* the set and the questions whose text is not blank are inserted in one
\* transaction; the markdown export that follows writes a file only
save_question_set ==
    \E tool \in {"save_question_set", "save_question_set_tool"},
       prompt \in CreatePrompts, items \in ItemLists,
       nonce \in Nonces \cup {NoNonce} :
        /\ nextSetId <= MaxSets
        /\ IF _require_nonce(nonce)
           THEN /\ Answered(ToolCall(tool, nonce, TRUE, FALSE))
                /\ UNCHANGED <<authorised, question_sets, questions, nextSetId>>
           ELSE /\ Passed(nonce)
                /\ IF Len(items) = 0
                   THEN /\ Answered(ToolCall(tool, nonce, FALSE, FALSE))
                        /\ UNCHANGED <<question_sets, questions, nextSetId>>
                   ELSE /\ question_sets' =
                            [id \in DOMAIN question_sets \cup {nextSetId} |->
                                IF id = nextSetId THEN prompt ELSE question_sets[id]]
                        /\ questions' = [questions EXCEPT
                                            ![nextSetId] = @ \o InsertedRows(items)]
                        /\ nextSetId' = nextSetId + 1
                        /\ Answered(ToolCall(tool, nonce, FALSE, TRUE))
        /\ UNCHANGED <<_VALID_NONCES, papers, notes, notMcp>>

\* app.py:525-547, delete_question_set_tool
delete_question_set_tool ==
    \E set_id \in SetIds, nonce \in Nonces \cup {NoNonce} :
        /\ IF _require_nonce(nonce)
           THEN /\ Answered(ToolCall("delete_question_set_tool", nonce, TRUE, FALSE))
                /\ UNCHANGED <<authorised, question_sets, questions>>
           ELSE /\ Passed(nonce)
                /\ questions' = [questions EXCEPT ![set_id] = <<>>]
                /\ question_sets' =
                      [id \in DOMAIN question_sets \ {set_id} |-> question_sets[id]]
                /\ Answered(ToolCall("delete_question_set_tool", nonce, FALSE,
                       set_id \in DOMAIN question_sets \/ questions[set_id] # <<>>))
        /\ UNCHANGED <<_VALID_NONCES, papers, notes, nextSetId, notMcp>>

NextMcp ==
    \/ session_handshake \/ add_paper \/ save_note \/ delete_paper
    \/ save_note_tool \/ delete_note_tool
    \/ save_question_set \/ delete_question_set_tool

----------------------------------------------------------------------------
(* The chat agent: webapp/backend/agent.py, run_agent.  The model's answer *)
(* to a chat call and the outcome of a tool are inputs.  Of a message the  *)
(* model keeps the role, the tool calls an assistant message requests (the *)
(* id and the function name of each), and the tool_call_id and name of a   *)
(* tool message; the content is left out.                                  *)

\* agent.py:268
max_iters == 5

\* agent.py:299-308: the names dispatched to qwen_tools.execute_tool
QwenTools == {"web_search"}

\* agent.py:309-319: the names run_agent handles itself
AgentTools == {"save_note_entry"}

\* the function names the model asks for; the last is no tool
ToolNames == QwenTools \cup AgentTools \cup {"bogus"}

\* raw_args as the model sends it: the text of a JSON object, a text that is
\* no JSON, or the text of a JSON array
ArgTexts == {"object", "invalid", "array"}

Message(role, calls, tool_call_id, name) ==
    [role |-> role, tool_calls |-> calls, tool_call_id |-> tool_call_id,
     name |-> name]

ToolCallOf(id, name) == [id |-> id, name |-> name]

\* the messages run_agent is handed: a user message alone, or after an
\* earlier tool message that carries a name (agent.py:262-266)
Histories ==
    {<<Message("user", <<>>, 0, "")>>,
     <<Message("tool", <<>>, 0, "web_search"), Message("user", <<>>, 0, "")>>}

IdleAgent ==
    /\ convo = <<>> /\ agentPc = "idle" /\ iters = 0 /\ nextCall = 0
    /\ asked = 0 /\ toolFailed = FALSE

\* agent.py:269-287: one iteration starts: the model is called and answers
\* with no tool call, which ends the loop, or with tool calls
Chat ==
    /\ agentPc = "chat"
    /\ iters < max_iters
    /\ iters' = iters + 1
    /\ \E n \in 0..(MaxToolCalls - asked) :
         \E names \in [1..n -> ToolNames] :
            /\ convo' = Append(convo,
                  Message("assistant",
                          [k \in 1..n |-> ToolCallOf(asked + k, names[k])], 0, ""))
            /\ asked' = asked + n
            /\ IF n = 0 THEN agentPc' = "done" /\ nextCall' = 0
               ELSE agentPc' = "tools" /\ nextCall' = 1
    /\ UNCHANGED <<toolFailed, notAgent>>

\* agent.py:270: _chat_with_ollama raises; run_agent does not catch it
ChatRaises ==
    /\ agentPc = "chat"
    /\ iters < max_iters
    /\ iters' = iters + 1
    /\ agentPc' = "raised"
    /\ UNCHANGED <<convo, nextCall, asked, toolFailed, notAgent>>

\* the assistant message whose tool calls are being executed
Requesting == convo[Len(convo) - (nextCall - 1)]

\* agent.py:297-336: whether the try block ends in its except branch.  The
\* arguments that are no JSON are replaced by {} (lines 292-296); arguments
\* that are no dict fail in the call; an unknown name raises ValueError; and
\* a tool can raise.
Fails(name, raw_args, raises) ==
    \/ name \notin QwenTools \cup AgentTools
    \/ raw_args = "array"
    \/ raises

\* where run_agent goes on after the tool call at nextCall
AfterCall ==
    IF nextCall < Len(Requesting.tool_calls)
    THEN agentPc' = "tools" /\ nextCall' = nextCall + 1
    ELSE /\ nextCall' = 0
         /\ agentPc' = IF iters < max_iters THEN "chat" ELSE "done"

\* ExecuteTool with the failure of a tool left uncaught
ExecuteTool_Uncaught ==
    /\ agentPc = "tools"
    /\ \E raw_args \in ArgTexts, raises \in BOOLEAN :
          LET call == Requesting.tool_calls[nextCall]
              failed == Fails(call.name, raw_args, raises)
          IN  /\ toolFailed' = failed
              /\ IF failed
                 THEN agentPc' = "raised" /\ UNCHANGED <<convo, nextCall>>
                 ELSE /\ convo' = Append(convo, Message("tool", <<>>, call.id, call.name))
                      /\ AfterCall
    /\ UNCHANGED <<iters, asked, notAgent>>

\* agent.py:289-346: one pass of "for call in tool_calls": the tool is run
\* inside try/except Exception and a tool message is appended either way
ExecuteTool ==
    /\ agentPc = "tools"
    /\ \E raw_args \in ArgTexts, raises \in BOOLEAN :
          LET call == Requesting.tool_calls[nextCall]
          IN  /\ toolFailed' = Fails(call.name, raw_args, raises)
              /\ convo' = Append(convo, Message("tool", <<>>, call.id, call.name))
              /\ AfterCall
    /\ UNCHANGED <<iters, asked, notAgent>>

NextAgent == Chat \/ ChatRaises \/ ExecuteTool

----------------------------------------------------------------------------
(* Properties of the chat agent (SpecAgent)                                *)

\* the positions of the assistant messages run_agent has appended
Assistants == {a \in 1..Len(convo) : convo[a].role = "assistant"}

\* the messages after position a up to the next assistant message
Following(a) ==
    LET later == {b \in Assistants : b > a}
        last == IF later = {} THEN Len(convo)
                ELSE (CHOOSE b \in later : \A c \in later : b <= c) - 1
    IN  SubSeq(convo, a + 1, last)

\* whether the inner loop is still at the tool calls of the message at a
InProgress(a) == agentPc = "tools" /\ \A b \in Assistants : b <= a

\* the tool messages that answer the first k tool calls, in their order
AnswersTo(calls, k) ==
    [i \in 1..k |-> Message("tool", <<>>, calls[i].id, calls[i].name)]

\* C30: run_agent calls the model at most five times, and every tool call of
\* an assistant message is answered by exactly one tool message with the
\* call's id and name, in the order of the calls and before the next model
\* call, whether the tool is unknown, its arguments are no JSON or it raises;
\* a step of the tool loop never ends the run with an exception.
C30_EveryToolCallAnswered ==
    /\ [](/\ iters <= max_iters
          /\ Cardinality(Assistants) <= max_iters
          /\ \A a \in Assistants :
                LET calls == convo[a].tool_calls
                IN  \E k \in 0..Len(calls) :
                       /\ Following(a) = AnswersTo(calls, k)
                       /\ k < Len(calls) => InProgress(a)
                       /\ InProgress(a) => k = nextCall - 1)
    /\ [][agentPc = "tools" =>
             /\ agentPc' \in {"tools", "chat", "done"}
             /\ Len(convo') = Len(convo) + 1]_vars

\* the fifth model call asked for tools, a tool call that failed was
\* followed by more of the run, and the run has ended with its last tool
\* call failed too
C30_Witness ==
    /\ agentPc = "done" /\ iters = max_iters /\ toolFailed
    /\ \E a \in Assistants :
          /\ Len(convo[a].tool_calls) = 1
          /\ convo[a].tool_calls[1].name = "bogus"
          /\ \E b \in Assistants : b > a
    /\ convo[Len(convo)].role = "tool"

----------------------------------------------------------------------------
(* Properties of the streamed generation (SpecStream)                      *)

TerminalEvents == {i \in DOMAIN events : events[i].type \in Terminal}
IsChunk(e) == e.type = "chunk"
ChunkTexts ==
    LET chunks == SelectSeq(events, IsChunk)
    IN  [i \in DOMAIN chunks |-> chunks[i].content]

\* C1: a streamed generation request whose event stream is consumed to its
\* end (the generator finished or the response ended on an exception) has
\* produced exactly one terminal event, "complete" or "error", whatever the
\* backend did.
C1_ExactlyOneTerminalEvent ==
    pc \in {"done", "crashed"} => Cardinality(TerminalEvents) = 1

\* C8: the chunk events are the non-empty fragments read so far, one event
\* per fragment and in arrival order, in every state (so each is forwarded
\* before the next fragment is read); only the last event can be terminal, so
\* "complete" comes after every chunk and no chunk follows a terminal event.
C8_ChunksInArrivalOrder ==
    /\ ChunkTexts = TruthyTexts(SubSeq(fragments, 1, pos))
    /\ \A i \in DOMAIN events : events[i].type \in Terminal => i = Len(events)

\* C8 witness: two different fragments and a skipped empty one were
\* forwarded, then "complete" was emitted.
C8_Witness ==
    /\ pc = "done"
    /\ Len(events) = 3
    /\ events[1].type = "chunk" /\ events[2].type = "chunk"
    /\ events[1].content # events[2].content
    /\ events[3].type = "complete"
    /\ Len(fragments) = 3

\* C9: when the caller has abandoned the stream before the backend stream was
\* exhausted, no terminal event has been produced and _parse_questions has
\* not been run on the partial text.
C9_AbandonedOwesNothing ==
    pc = "abandoned" => TerminalEvents = {} /\ parseRuns = 0

\* C9 witness: abandoned mid-stream, after a chunk was forwarded and with
\* fragments still unread.
C9_Witness ==
    /\ pc = "abandoned"
    /\ collected # <<>>
    /\ pos < Len(fragments)

\* C29: the raw_response of a "complete" event is the concatenation, in
\* emission order, of the contents of the chunk events before it, which are
\* the fragments that are neither missing nor empty; its questions and its
\* markdown are those of one normalization run on exactly that text.
C29_CompleteCarriesTheChunks ==
    \A i \in DOMAIN events :
        events[i].type = "complete" =>
            LET before == SelectSeq(SubSeq(events, 1, i - 1), IsChunk)
                raw == events[i].raw_response
                parsed == _parse_questions(Holds(raw))
            IN  /\ raw = Join([k \in DOMAIN before |-> before[k].content])
                /\ raw = Join(TruthyTexts(fragments))
                /\ Len(before) = Cardinality({k \in DOMAIN fragments : Truthy(fragments[k])})
                /\ parsed.tag = "ok"
                /\ events[i].questions = parsed.questions
                /\ events[i].markdown = MarkdownOf(parsed.questions)
                /\ parseRuns = 1

\* C29 witness: the fragments "a", a missing one and "b" ended in a complete
\* event with raw_response "ab", two questions and their markdown.
C29_Witness ==
    /\ pc = "done"
    /\ fragments = <<Str(<<"a">>), Null, Str(<<"b">>)>>
    /\ Len(events) = 3
    /\ events[3].type = "complete"
    /\ events[3].raw_response = <<"a", "b">>
    /\ Len(events[3].questions) = 2
    /\ events[3].markdown # <<>>

----------------------------------------------------------------------------
(* Properties of the response normalizer (SpecParse)                       *)

\* the response text is exactly a top-level {"error": "<reason>"}
IsRefusal(c) ==
    c.fence = "" /\ c.top = "object" /\ c.questions = Absent /\ c.error.t = "str"

\* C2: on a top-level {"error": "<reason>"} the normalizer fails, with an
\* error that carries <reason> verbatim and is not the malformed-response
\* error; it returns no question list.
C2_RefusalCarriesReason ==
    (result # NotRun /\ IsRefusal(content)) =>
        /\ result.tag = "raise"
        /\ result.msg = content.error.s
        /\ result.msg \notin {MsgNotJson, MsgNoList}

\* C3: the normalizer returns at least one Question or fails with a
\* QuestionGenerationError; it returns no empty list and raises nothing else.
C3_NonEmptyOrTypedFailure ==
    result # NotRun =>
        \/ result.tag = "ok" /\ Len(result.questions) >= 1
        \/ result.tag = "raise" /\ result.exc = "QuestionGenerationError"

\* the response parses as JSON and holds a questions array
HasQuestionsArray(c) ==
    c.fence = "" /\ c.top \in {"array", "object"} /\ c.questions.t = "list"

\* every value of an entry that is a mapping is a string, null or missing
\* (options aside)
StringsOnly(e) ==
    e.t = "dict" =>
        \A v \in {e.text, e.question, e.kind, e.type, e.answer, e.solution} :
            v.t \in {"absent", "null", "str"}

\* the text of an entry, taken from "text" or "question"
EntryText(e) == Or(Get(e.text), Get(e.question))

\* an entry C4 calls valid: a mapping whose text is neither missing nor
\* empty nor whitespace-only
HasText(e) ==
    e.t = "dict" /\ EntryText(e).t = "str" /\ strip(EntryText(e).s) # <<>>

\* C4: with a questions array (of entries whose values are strings), entries
\* that are no mapping or have no text are skipped: the result holds exactly
\* the remaining entries in their order, and the call fails only when none
\* remains.
C4_InvalidEntriesSkipped ==
    (/\ result # NotRun
     /\ HasQuestionsArray(content)
     /\ \A i \in DOMAIN content.questions.items : StringsOnly(content.questions.items[i]))
    => LET valid == SelectSeq(content.questions.items, HasText)
       IN  IF valid = <<>> THEN result.tag = "raise"
           ELSE /\ result.tag = "ok"
                /\ Len(result.questions) = Len(valid)
                /\ \A i \in DOMAIN valid :
                       result.questions[i].text = strip(EntryText(valid[i]).s)

\* C20: without OPENAI_API_KEY and LITELLM_API_KEY both endpoints fail with
\* the missing-credentials error before any request is sent: no backend call
\* is made, the batch endpoint answers with that error, and the streamed one
\* emits it with no chunk event before it.
C20_NoCredentialsNoRequest ==
    ~hasCreds =>
        /\ requestsSent = 0
        /\ pc \in {"start", "done", "answered", "abandoned"}
        /\ pc = "done" => events = <<ErrorEvent(MsgNoKey)>>
        /\ pc # "done" => events = <<>>
        /\ pc = "answered" => response = Answer(400, MsgNoKey)

\* C20 witness: the streamed endpoint answered a request without credentials
\* with the one error event, although the backend had text to send.
C20_Witness ==
    /\ ~hasCreds /\ ~openFails
    /\ pc = "done"
    /\ events = <<ErrorEvent(MsgNoKey)>>
    /\ BackendText # <<>>

\* the four kinds a Question record may have, as texts
RecognizedKinds == {<<"mcq">>, <<"short_answer">>, <<"true_false">>, <<"essay">>}

\* C13: every Question record the normalizer returns has a kind among mcq,
\* short_answer, true_false, essay: read from kind or type, lower-cased,
\* short_answer when absent, and short_answer for any other value.
C13_KindRecognized ==
    result.tag = "ok" =>
        \A i \in DOMAIN result.questions :
            result.questions[i].kind \in RecognizedKinds

InitParse ==
    /\ \/ content \in OtherDocuments \cup FencedDocuments
       \/ \E top \in {"array", "object"}, k \in 0..MaxEntries :
             \E es \in [1..k -> Entries] : content = ArrayDocument(top, es)
    /\ result = NotRun
    /\ IdleStream /\ IdleStore /\ preview = NoPreview /\ IdleQuota /\ IdleCompose /\ IdleRender
    /\ IdleMcp /\ IdleAgent

InitStream ==
    /\ IdleParse /\ IdleStore /\ preview = NoPreview /\ IdleQuota /\ IdleCompose /\ IdleRender
    /\ IdleMcp /\ IdleAgent
    /\ hasCreds \in BOOLEAN
    /\ openFails \in BOOLEAN
    /\ fragments \in SeqsUpTo(FragmentVals, MaxFragments)
    /\ failAt \in 0..(Len(fragments) + 1)
    /\ backendContent \in StreamContents
    /\ pc = "start" /\ pos = 0 /\ collected = <<>> /\ events = <<>>
    /\ parseRuns = 0 /\ requestsSent = 0 /\ response = NoAnswer

InitStore ==
    IdleParse /\ IdleStream /\ IdleStore /\ preview = NoPreview /\ IdleQuota /\ IdleCompose /\ IdleRender
    /\ IdleMcp /\ IdleAgent

----------------------------------------------------------------------------
(* Properties of the MCP server (SpecMcp)                                  *)

\* C21: a tool call that carries no nonce, or a nonce session_handshake
\* never issued, changes no row of notes, papers, question sets or
\* questions.
C21_WritesNeedNonce ==
    toolCall.wrote => toolCall.issued

\* C22: a nonce is good for one mutating tool call: a mutating tool call
\* that presents a nonce which has already let a mutating call through is
\* blocked.
C22_NonceOneTime ==
    toolCall.reused => toolCall.blocked

----------------------------------------------------------------------------
(* Properties of the question-set store (SpecStore)                        *)

\* C5: under every interleaving of create, update and delete calls, every
\* stored question row belongs to a question set that exists.
C5_NoOrphanedQuestions ==
    \A id \in SetIds : questions[id] # <<>> => id \in DOMAIN question_sets

\* C18: after create_question_set succeeds the stored set holds the full
\* supplied question list, with the same length and in the same order; no
\* set holds only part of, or none of, the list it was created with.
C18_CreatedWithFullList ==
    (lastCall.op = "create" /\ lastCall.status = 201)
    => LET stored == questions[lastCall.set_id]
       IN  /\ Len(stored) = Len(lastCall.items)
           /\ \A i \in DOMAIN stored :
                 stored[i].text = strip(lastCall.items[i].text)

\* C19: an update_question_set call on a set id that does not exist is
\* answered 404, whatever its other arguments are, and never 400; a call
\* answered 404 or 400 leaves every stored prompt and question list unchanged.
C19_UpdateNotFound ==
    [][(lastCall' # lastCall /\ lastCall'.op \in {"update", "update_check"}
            /\ lastCall'.status \in {0, 400, 404})
        => /\ (lastCall'.set_id \notin DOMAIN question_sets) <=> (lastCall'.status = 404)
           /\ question_sets' = question_sets
           /\ questions' = questions]_vars

\* C19 witness: with a set stored, an update of a missing set was answered
\* 404 and the stored set is as it was created.
C19_Witness ==
    /\ lastCall.op = "update" /\ lastCall.status = 404
    /\ lastCall.set_id \notin DOMAIN question_sets
    /\ \E id \in DOMAIN question_sets : questions[id] # <<>>

\* C28: when an update_question_set call succeeds, the set then holds
\* exactly the supplied questions in the supplied order and none of its
\* earlier ones, its prompt is the supplied prompt or, when none was
\* supplied, the prompt it had, and the prompt and the questions of every
\* other set are as they were.
C28_UpdateReplacesAll ==
    [][\A call \in pending \ pending' :
          lastCall'.status = 200 =>
              LET id == call.set_id
              IN  /\ Len(questions'[id]) = Len(call.items)
                  /\ \A i \in DOMAIN questions'[id] :
                        questions'[id][i].text = strip(call.items[i].text)
                  /\ question_sets'[id] =
                        IF call.prompt # Null THEN call.prompt ELSE question_sets[id]
                  /\ DOMAIN question_sets' = DOMAIN question_sets
                  /\ \A other \in SetIds \ {id} :
                        /\ questions'[other] = questions[other]
                        /\ other \in DOMAIN question_sets =>
                              question_sets'[other] = question_sets[other]]_vars

----------------------------------------------------------------------------
(* Properties of the insertion preview (SpecPreview)                       *)

\* C6: a preview that is answered returns the requested index clamped into
\* [0, len(existing)], for negative indexes and indexes beyond the end too;
\* for two existing questions, one new question and index 5 the index is 2
\* and the merged list is the existing list followed by the new question.
C6_InsertIndexClamped ==
    preview.status = 200 =>
        LET n == Len(preview.existing)
            r == preview.requested
        IN  /\ preview.insert_index \in 0..n
            /\ r \in 0..n => preview.insert_index = r
            /\ r < 0 => preview.insert_index = 0
            /\ r > n => preview.insert_index = n
            /\ (n = 2 /\ Len(preview.new) = 1 /\ r = 5) =>
                  /\ preview.insert_index = 2
                  /\ preview.merged_questions = preview.existing \o preview.new

\* C6 witness: the preview of existing=[q2,q1], new=[q3], index 5.
C6_Witness ==
    /\ preview.status = 200
    /\ preview.requested = 5
    /\ Len(preview.existing) = 2
    /\ preview.new = <<_normalize_question(q3)>>
    /\ preview.insert_index = 2

\* C7: a step that answers a preview, with any status, leaves the stored
\* prompt and questions of every set as they were; the stored questions
\* change only in a step of an explicit update_question_set call.
C7_PreviewLeavesStore ==
    [][/\ preview' # preview =>
            question_sets' = question_sets /\ questions' = questions
       /\ questions' # questions => lastCall'.op = "update"]_vars

\* C7 witness: a preview with a merged list was answered and the store still
\* holds the list it held before.
C7_Witness ==
    /\ preview.status = 200
    /\ preview.new # <<>>
    /\ questions[preview.set_id] = preview.existing
    /\ preview.merged_questions # questions[preview.set_id]

\* C23: in an answered preview with clamped index i the merged list is the
\* first i existing questions, then all new questions in their order, then
\* the remaining existing questions; preview_questions is the new list; and
\* nothing is deduplicated, so the merged list is as long as both lists
\* together, also when a new question has the text of an existing one.
C23_SplicedWithoutDedup ==
    preview.status = 200 =>
        LET i == preview.insert_index
            n == Len(preview.existing)
            k == Len(preview.new)
            merged == preview.merged_questions
        IN  /\ Len(merged) = n + k
            /\ \A j \in 1..(n + k) :
                  merged[j] = IF j <= i THEN preview.existing[j]
                              ELSE IF j <= i + k THEN preview.new[j - i]
                              ELSE preview.existing[j - k]
            /\ preview.preview_questions = preview.new

\* C23 witness: the preview of existing=[q2,q1], new=[q3,q1] at index 1; the
\* merged list holds q1 twice.
C23_Witness ==
    /\ preview.status = 200
    /\ preview.insert_index = 1
    /\ preview.existing = <<_normalize_question(q2), _normalize_question(q1)>>
    /\ preview.new = <<_normalize_question(q3), _normalize_question(q1)>>
    /\ preview.merged_questions =
          <<_normalize_question(q2), _normalize_question(q3),
            _normalize_question(q1), _normalize_question(q1)>>

----------------------------------------------------------------------------
(* Properties of the quota deriver (SpecQuota)                             *)

\* the spellings, in either letter case and number, under which a text
\* mentions a kind
McqWords == {"MCQ", "MCQs", "mcq", "mcqs"}
ShortAnswerWords == {"Short Answer", "short answer", "short-answers"}
OtherKindWords == {"Essays", "tf"}

\* the places where the instruction text has a number and then such a word
Mentions(words) ==
    {i \in 1..(Len(instructions) - 1) :
        instructions[i] \in Numbers /\ instructions[i + 1] \in words}

QuotasFor(i, j) ==
    /\ derived.counts =
           [k \in {"mcq", "short_answer"} |->
               IF k = "mcq" THEN IntOf(instructions[i]) ELSE IntOf(instructions[j])]
    /\ derived.total = Some(IntOf(instructions[i]) + IntOf(instructions[j]))

\* C10 as stated: for every text that contains "<n> mcq" and "<m> short
\* answer" in any letter case and number, and mentions no other kind with a
\* number, the deriver returns {mcq: n, short_answer: m} and total n+m.
C10_QuotasAsStated ==
    derived.called =>
        \A i \in Mentions(McqWords), j \in Mentions(ShortAnswerWords) :
            Mentions(OtherKindWords) = {} => QuotasFor(i, j)

\* C10 amended: the same, for texts that mention each of the two kinds with a
\* number exactly once; the numbers of a repeated kind are summed.
C10_QuotasOfSingleMentions ==
    (/\ derived.called
     /\ Cardinality(Mentions(McqWords)) = 1
     /\ Cardinality(Mentions(ShortAnswerWords)) = 1
     /\ Mentions(OtherKindWords) = {})
    => \A i \in Mentions(McqWords), j \in Mentions(ShortAnswerWords) :
           QuotasFor(i, j)

\* C10 witness: "Write 2 MCQs 1 Short Answer" was derived as mcq 2,
\* short_answer 1, total 3.
C10_Witness ==
    /\ instructions = <<"Write", "2", "MCQ", "1", "Short Answer">>
    /\ derived.called
    /\ derived.counts = [k \in {"mcq", "short_answer"} |-> IF k = "mcq" THEN 2 ELSE 1]
    /\ derived.total = Some(3)

\* the sum of the values of a quota map
RECURSIVE SumOf(_)
SumOf(counts) ==
    IF DOMAIN counts = {} THEN 0
    ELSE LET k == CHOOSE x \in DOMAIN counts : TRUE
         IN  counts[k] + SumOf([x \in DOMAIN counts \ {k} |-> counts[x]])

\* the numbers of the text, lower-cased, that stand right before a word of
\* the set
NumbersBefore(words) ==
    {i \in 1..(Len(instructions) - 1) :
        instructions[i] \in Numbers /\ LowerToken(instructions[i + 1]) \in words}

\* C24: for every instruction text the deriver returns either non-empty
\* quotas, each the sum of all matches of its kind, with total their sum; or
\* empty quotas with total the number of the first bare "<n> questions|items"
\* match; or empty quotas with no total.  The sum of non-empty quotas never
\* differs from total.
C24_QuotasSumToTotal ==
    derived.called =>
        LET bare == NumbersBefore(GeneralPattern)
        IN  /\ DOMAIN derived.counts =
                  {k \in Kinds : NumbersBefore(TYPE_PATTERNS(k)) # {}}
            /\ \A k \in DOMAIN derived.counts :
                  derived.counts[k] = SumAt(instructions, NumbersBefore(TYPE_PATTERNS(k)))
            /\ DOMAIN derived.counts # {} =>
                  derived.total = Some(SumOf(derived.counts))
            /\ (DOMAIN derived.counts = {} /\ bare # {}) =>
                  \E i \in bare :
                      /\ \A j \in bare : i <= j
                      /\ derived.total = Some(IntOf(instructions[i]))
            /\ (DOMAIN derived.counts = {} /\ bare = {}) => derived.total = None

\* C24 witness: "2 MCQ 1 mcqs 1 Essays" was derived as mcq 3, essay 1,
\* total 4.
C24_Witness ==
    /\ derived.called
    /\ instructions = <<"2", "MCQ", "1", "mcqs", "1", "Essays">>
    /\ derived.counts = [k \in {"mcq", "essay"} |-> IF k = "mcq" THEN 3 ELSE 1]
    /\ derived.total = Some(4)

----------------------------------------------------------------------------
(* Properties of the prompt composer (SpecCompose)                         *)

\* the number of questions the count guidance demands, if it demands one
Demands(n) == user_prompt.count_instruction \in {Exactly(n), ExactlyTotal(n)}

\* C11: the count guidance follows the precedence explicit question_count >
\* derived total > open-ended: a supplied question_count is the number the
\* prompt demands, also when the instructions yield quotas with another
\* total; the derived total is demanded only without an explicit count; the
\* open-ended wording is used only when neither exists.
C11_CountPrecedence ==
    user_prompt.called =>
        LET derived_total == _derive_type_counts(request.instructions).total
        IN  IF request.question_count.some
            THEN Demands(request.question_count.value)
            ELSE IF derived_total.some
            THEN Demands(derived_total.value)
            ELSE user_prompt.count_instruction = OpenEnded

\* C12: the context embedded in the prompt is a prefix of the supplied
\* context of at most MAX_CONTEXT_CHARS characters.
C12_ContextWithinBudget ==
    (user_prompt.called /\ ~request.context.isNone /\ user_prompt.context_block.present)
    => /\ user_prompt.context_block.offset = 0
       /\ user_prompt.context_block.length <= MAX_CONTEXT_CHARS

----------------------------------------------------------------------------
(* Properties of the canvas renderer (SpecRender)                          *)

C15_OneTrailingNewline ==
    \A i \in DOMAIN rendered :
        LET md == rendered[i].markdown
        IN  /\ md # <<>>
            /\ md[Len(md)] = "\n"
            /\ Len(md) >= 2 => md[Len(md) - 1] # "\n"

\* the questions in the order they are rendered, group after group
Grouped ==
    OfGroup(canvas.items, "mcq") \o OfGroup(canvas.items, "short_answer")
        \o OfGroup(canvas.items, "true_false") \o OfGroup(canvas.items, "essay")

IsAnswerLine(l) == l # <<>> /\ Head(l) = "**Answer:**"

\* the places of the answer lines of a render, one per rendered question
AnswerAt(r) ==
    SelectSeq([x \in DOMAIN r.lines |-> x], LAMBDA x : IsAnswerLine(r.lines[x]))

\* the text of a line after its first two atoms, the marker and the space
After(l) == SubSeq(l, 3, Len(l))

Letters == <<"A", "B", "C", "D">>

\* lower-cased and whitespace-collapsed: the words, lower-cased
Collapsed(s) == lower(SelectSeq(s, LAMBDA a : a \notin Whitespace))

\* C16: the answer letter rendered for an mcq record is the upper-cased
\* answer when the trimmed answer is one of A, B, C, D in either case;
\* otherwise the letter of the first of the four rendered options equal to
\* the answer after lower-casing and collapsing whitespace; otherwise A.
\* Options Paris, London, Rome with answer London give B.
C16_AnswerLetter ==
    \A i \in DOMAIN rendered :
        LET r == rendered[i]
            at == AnswerAt(r)
            grouped == Grouped
        IN  \A k \in DOMAIN grouped :
            KindGroup(grouped[k]) = "mcq" =>
                LET answer == Get(grouped[k].answer)
                    letter == After(r.lines[at[k]])
                    trimmed == IF answer.t = "str" THEN strip(answer.s) ELSE <<>>
                    asLetter == {n \in 1..4 : Len(trimmed) = 1
                                    /\ LowerAtom(trimmed[1]) = LowerAtom(Letters[n])}
                    \* the options on the lines a) to d) before the answer line
                    equal == {n \in 1..4 : answer.t = "str"
                                 /\ Collapsed(After(r.lines[at[k] - 5 + n]))
                                        = Collapsed(answer.s)}
                IN  /\ Len(letter) = 1 /\ letter[1] \in {"A", "B", "C", "D"}
                    /\ IF asLetter # {} THEN \E n \in asLetter : letter[1] = Letters[n]
                       ELSE IF equal # {}
                       THEN \E n \in equal :
                               letter[1] = Letters[n] /\ \A m \in equal : n <= m
                       ELSE letter[1] = "A"
                    /\ (grouped[k].options = Opts3 /\ answer = Str(<<"London">>))
                          => letter[1] = "B"

\* C16 witness: options Paris, London, Rome with answer London rendered as B.
C16_Witness ==
    \E i \in DOMAIN rendered : \E k \in DOMAIN Grouped :
        /\ Grouped[k] = Mcq(Opts3, Str(<<"London">>))
        /\ After(rendered[i].lines[AnswerAt(rendered[i])[k]]) = <<"B">>

\* the trimmed answer of a record as text; "" when missing or empty
TrimmedAnswer(it) ==
    IF Truthy(Get(it.answer)) THEN strip(it.answer.s) ELSE <<>>

\* C17: for a true_false record the renderer emits "**Answer:** True" exactly
\* when the trimmed answer is one of true, t, 1, yes in any letter case, and
\* "**Answer:** False" for every other answer, a missing or empty one
\* included; the answer "T" gives True.
C17_TrueFalseAnswer ==
    \A i \in DOMAIN rendered :
        LET r == rendered[i]
            at == AnswerAt(r)
            grouped == Grouped
        IN  \A k \in DOMAIN grouped :
            KindGroup(grouped[k]) = "true_false" =>
                LET a == TrimmedAnswer(grouped[k])
                    isTrue == Len(a) = 1 /\ LowerAtom(a[1]) \in {"true", "t", "1", "yes"}
                IN  r.lines[at[k]] =
                        <<"**Answer:**", " ", IF isTrue THEN "True" ELSE "False">>

\* C17 witness: a true_false record with answer "T" rendered as True, and one
\* without an answer rendered as False.
C17_Witness ==
    \E i \in DOMAIN rendered : \E k, m \in DOMAIN Grouped :
        /\ Grouped[k] = TrueFalse(Str(<<"T">>))
        /\ rendered[i].lines[AnswerAt(rendered[i])[k]] = <<"**Answer:**", " ", "True">>
        /\ Grouped[m] = TrueFalse(Null)
        /\ rendered[i].lines[AnswerAt(rendered[i])[m]] = <<"**Answer:**", " ", "False">>

----------------------------------------------------------------------------
(* Properties of the layout of the rendered markdown (SpecLayout)          *)

GroupTitles == {GroupTitle(Groups[g]) : g \in DOMAIN Groups}

\* the places of the header lines and of the numbered title lines of a render
HeadersAt(r) ==
    SelectSeq([x \in DOMAIN r.lines |-> x],
              LAMBDA x : r.lines[x] # <<>> /\ r.lines[x][1] \in GroupTitles)

TitlesAt(r) ==
    SelectSeq([x \in DOMAIN r.lines |-> x],
              LAMBDA x : r.lines[x] # <<>> /\ r.lines[x][1] = "**")

\* the words of a question on its title line
Titled(it) ==
    (IF KindGroup(it) = "true_false" THEN <<"T/F:">> ELSE <<>>)
        \o SelectSeq(it.text.s, LAMBDA a : a \notin Whitespace)

\* the words of a line, without its whitespace
Words(l) == SelectSeq(l, LAMBDA a : a \notin Whitespace)

\* C25: the rendered questions are those of the groups mcq, short_answer,
\* true_false, essay in this order, each group in input order; the n-th
\* rendered question carries the number n, across the groups; the first
\* question of every group, and no other line, is preceded by one header
\* line, that of its group.  Three true_false questions give one True/False
\* header of 2 points each and the numbers 1 to 3.
C25_GroupedAndNumbered ==
    \A i \in DOMAIN rendered :
        LET r == rendered[i]
            titles == TitlesAt(r)
            headers == HeadersAt(r)
            grouped == Grouped
            starts == {k \in DOMAIN grouped :
                          k = 1 \/ KindGroup(grouped[k - 1]) # KindGroup(grouped[k])}
        IN  /\ Len(titles) = Len(grouped)
            /\ \A k \in DOMAIN titles :
                  /\ r.lines[titles[k]][2] = ToString(k)
                  /\ Words(SubSeq(r.lines[titles[k]], 4, Len(r.lines[titles[k]]) - 1))
                        = Titled(grouped[k])
            /\ \A k \in starts :
                  /\ titles[k] > 1
                  /\ r.lines[titles[k] - 1][1] = GroupTitle(KindGroup(grouped[k]))
            /\ \A h \in DOMAIN headers :
                  \E k \in starts : titles[k] = headers[h] + 1
            /\ (Len(canvas.items) = 3
                    /\ \A k \in 1..3 : KindGroup(canvas.items[k]) = "true_false") =>
                  /\ Len(headers) = 1
                  /\ r.lines[headers[1]] =
                        <<"### True/False Questions (T/F) - ", "2", " points each", "\n">>
                  /\ [k \in 1..3 |-> r.lines[titles[k]][2]] = <<"1", "2", "3">>

\* C25 witness: three true_false questions, one of them under the alias TF,
\* were rendered under one header with the numbers 1, 2, 3.
C25_Witness ==
    /\ rendered # <<>>
    /\ Len(canvas.items) = 3
    /\ \A k \in 1..3 : KindGroup(canvas.items[k]) = "true_false"
    /\ canvas.items[1] # canvas.items[2]
    /\ Len(HeadersAt(rendered[1])) = 1
    /\ Len(TitlesAt(rendered[1])) = 3

\* the kind of a question dict, lower-cased and trimmed; "" when the kind is
\* null or missing
KindText(it) ==
    IF Get(it.kind).t = "str" THEN strip(lower(it.kind.s)) ELSE <<>>

CanonicalKinds == {<<"mcq">>, <<"short_answer">>, <<"true_false">>, <<"essay">>}

\* the spellings of the four kinds that canvas_export.py:34-41 lists
AcceptedKinds ==
    CanonicalKinds \cup
    {<<"multiple_choice">>, <<"multiple_choice_question">>, <<"short-answer">>,
     <<"shortanswer">>, <<"truefalse">>, <<"tf">>, <<"long_answer">>, <<"longanswer">>}

\* the render of the questions of canvas whose kind is in the set
RenderOf(kinds) ==
    render_canvas_markdown(canvas.prompt,
        SelectSeq(canvas.items, LAMBDA it : KindText(it) \in kinds),
        canvas.points).markdown

GivenOptions(it) ==
    IF Get(it.options).t = "list"
    THEN [n \in DOMAIN it.options.items |-> StrOf(it.options.items[n])]
    ELSE <<>>

\* the words of a text with one space between them
RECURSIVE Spaced(_)
Spaced(words) ==
    IF words = <<>> THEN <<>>
    ELSE IF Len(words) = 1 THEN words
    ELSE <<Head(words), " ">> \o Spaced(Tail(words))

\* the texts whitespace-collapsed, padded with the placeholder to four and
\* cut to the first four
FourOf(texts) ==
    SubSeq([n \in DOMAIN texts |-> Spaced(Words(texts[n]))]
               \o [n \in 1..4 |-> Placeholder], 1, 4)

OptionMarks == <<"a)", "b)", "c)", "d)">>

\* every rendered mcq question has, between its title line and its answer
\* line, the four lines a) to d) with the options expected of it
OptionLinesAre(expected(_)) ==
    \A i \in DOMAIN rendered :
        LET r == rendered[i]
            titles == TitlesAt(r)
            grouped == Grouped
        IN  \A k \in DOMAIN grouped :
                KindGroup(grouped[k]) = "mcq" =>
                    /\ \A n \in 1..4 :
                          r.lines[titles[k] + n]
                              = <<OptionMarks[n], " ">> \o expected(grouped[k])[n]
                    /\ IsAnswerLine(r.lines[titles[k] + 5])

AllOptions(it) == FourOf(GivenOptions(it))

NonBlankOptions(it) ==
    FourOf(SelectSeq(GivenOptions(it), LAMBDA t : Words(t) # <<>>))

\* C27 as stated: every rendered mcq question has exactly the four option
\* lines a) to d): its options, whitespace-collapsed and in their order,
\* padded with the placeholder when fewer than four and cut to the first four
\* when more, for null and the empty list too.
C27_FourOptionsInOrder == OptionLinesAre(AllOptions)

\* C27 amended: the same of the options that are not blank; an option that is
\* empty or only whitespace is left out before the padding and the cut.
C27_FourNonBlankOptions == OptionLinesAre(NonBlankOptions)

\* C27 witness: an mcq question with the six options Oslo, blank, Paris,
\* "LONDON \n Town", Rome, Bern was rendered with Oslo, Paris, LONDON Town,
\* Rome, and one with no options with four placeholders.
C27_Witness ==
    /\ rendered # <<>>
    /\ Len(canvas.items) = 2
    /\ canvas.items[1].options = Opts6
    /\ canvas.items[2].options = Null
    /\ KindGroup(canvas.items[1]) = "mcq" /\ KindGroup(canvas.items[2]) = "mcq"
    /\ [n \in 2..5 |-> rendered[1].lines[n + 1]] =
          [n \in 2..5 |->
              <<OptionMarks[n - 1], " ">> \o
                  (<< <<"Oslo">>, <<"Paris">>, <<"LONDON", " ", "Town">>, <<"Rome">> >>)[n - 1]]
    /\ \A n \in 1..4 :
          rendered[1].lines[TitlesAt(rendered[1])[2] + n] = <<OptionMarks[n], " ">> \o Placeholder

\* One question set exists, with any list a create call can leave.
InitPreview ==
    /\ IdleParse /\ IdleStream
    /\ question_sets = <<Str(<<"p1">>)>>
    /\ \E items \in ItemLists :
          questions = [id \in SetIds |-> IF id = 1 THEN InsertedRows(items) ELSE <<>>]
    /\ nextSetId = 2 /\ pending = {} /\ lastCall = Call("create", 1, 201)
    /\ preview = NoPreview /\ IdleQuota /\ IdleCompose /\ IdleRender
    /\ IdleMcp /\ IdleAgent

InitQuota ==
    /\ IdleParse /\ IdleStream /\ IdleStore /\ preview = NoPreview /\ IdleCompose /\ IdleRender
    /\ IdleMcp /\ IdleAgent
    /\ \E k \in 0..MaxPhrases :
          \E ps \in [1..k -> Phrases] : instructions = Flatten(ps)
    /\ derived = NotDerived

InitCompose ==
    /\ IdleParse /\ IdleStream /\ IdleStore /\ preview = NoPreview /\ IdleQuota
    /\ IdleRender /\ IdleMcp /\ IdleAgent
    /\ request \in Requests /\ user_prompt = NoPrompt

InitRender ==
    /\ IdleParse /\ IdleStream /\ IdleStore /\ preview = NoPreview /\ IdleQuota
    /\ IdleCompose /\ IdleMcp /\ IdleAgent
    /\ \E lp \in Labelled, k \in 0..MaxItems :
          \E items \in [1..k -> CanvasItems] :
              canvas = Canvas(lp[1], items, lp[2])
    /\ rendered = <<>> /\ otherRenders = 0

\* the generator's call (services.py:74): the instructions are the label and
\* the point mapping is empty
InitLayout ==
    /\ IdleParse /\ IdleStream /\ IdleStore /\ preview = NoPreview /\ IdleQuota
    /\ IdleCompose /\ IdleMcp /\ IdleAgent
    /\ \E k \in 0..MaxQuestions :
          \E items \in [1..k -> PlainItems] :
              canvas = Canvas(<<"Quiz">>, items, <<>>)
    /\ rendered = <<>> /\ otherRenders = 0

\* agent.py:255-266: the system prompt and the messages handed over
InitAgent ==
    /\ IdleParse /\ IdleStream /\ IdleStore /\ preview = NoPreview /\ IdleQuota
    /\ IdleCompose /\ IdleRender /\ IdleMcp
    /\ \E history \in Histories :
          convo = <<Message("system", <<>>, 0, "")>> \o history
    /\ agentPc = "chat" /\ iters = 0 /\ nextCall = 0 /\ asked = 0
    /\ toolFailed = FALSE

InitMcp ==
    /\ IdleParse /\ IdleStream /\ IdleStore /\ preview = NoPreview /\ IdleQuota
    /\ IdleCompose /\ IdleRender /\ IdleMcp /\ IdleAgent

NextParse == Parse

SpecParse == InitParse /\ [][NextParse]_vars

SpecStream == InitStream /\ [][NextStream]_vars

SpecStore == InitStore /\ [][NextStore]_vars

SpecPreview == InitPreview /\ [][NextPreview]_vars

SpecQuota == InitQuota /\ [][NextQuota]_vars

SpecCompose == InitCompose /\ [][NextCompose]_vars

SpecRender == InitRender /\ [][NextRender]_vars

SpecLayout == InitLayout /\ [][NextLayout]_vars

SpecMcp == InitMcp /\ [][NextMcp]_vars

SpecAgent == InitAgent /\ [][NextAgent]_vars

=============================================================================
